---- MODULE Spec2Model ----
(***************************************************************************)
(* A model of rawzip's archive writer (src/src/writer.rs), its extra-field *)
(* container (src/src/extra_fields.rs) and the header-location bit mask    *)
(* (src/src/headers.rs).                                                   *)
(*                                                                         *)
(* Representation of numbers.  TLC's integers are 32-bit signed, while the *)
(* writer's byte counter, sizes and offsets are u64 and its ZIP64          *)
(* thresholds are u32::MAX.  A u32/u64 quantity is therefore a pair        *)
(* <<hi, lo>> standing for hi * 65536 + lo with 0 <= lo < 65536 ("wide"    *)
(* numbers, operators WAdd, WSub, WGe, ...).  u16 and u8 quantities are    *)
(* plain integers, reduced modulo 2^16 where the code casts with `as u16`. *)
(*                                                                         *)
(* Representation of byte strings.  A byte string is a run-length encoded  *)
(* sequence of runs <<b, n>> (byte b repeated n times, n a wide number     *)
(* greater than zero) in which adjacent runs hold different bytes, so that *)
(* two byte strings are equal exactly when their encodings are equal.      *)
(* This keeps a 4 GiB payload or a 65531-byte extra field a small value.   *)
(***************************************************************************)
EXTENDS Integers, Sequences, FiniteSets, TLC

-----------------------------------------------------------------------------
(* Wide numbers *)

B16 == 65536

W0 == <<0, 0>>

W1 == <<0, 1>>

WInt(n) == <<n \div B16, n % B16>>

WAdd(a, b) == <<a[1] + b[1] + ((a[2] + b[2]) \div B16), (a[2] + b[2]) % B16>>

\* a - b for a >= b
WSub(a, b) ==
    IF a[2] >= b[2] THEN <<a[1] - b[1], a[2] - b[2]>>
    ELSE <<a[1] - b[1] - 1, a[2] + B16 - b[2]>>

WGe(a, b) == a[1] > b[1] \/ (a[1] = b[1] /\ a[2] >= b[2])

WLt(a, b) == ~WGe(a, b)

WMin(a, b) == IF WGe(a, b) THEN b ELSE a

\* `x as u32` for a u64 x
AsU32(a) == <<a[1] % B16, a[2]>>

\* u32::MAX as u64
U32_MAX == <<65535, 65535>>

\* u16::MAX
U16_MAX == 65535

-----------------------------------------------------------------------------
(* Byte strings *)

\* the number of bytes of s (the runs are summed by halves, which keeps the
\* evaluation shallow for strings of many runs)
RECURSIVE BLen(_)
BLen(s) ==
    IF s = <<>> THEN W0
    ELSE IF Len(s) = 1 THEN s[1][2]
    ELSE WAdd(BLen(SubSeq(s, 1, Len(s) \div 2)),
              BLen(SubSeq(s, (Len(s) \div 2) + 1, Len(s))))

\* concatenation, merging the runs that meet when they hold the same byte
Cat(s, t) ==
    IF s = <<>> THEN t
    ELSE IF t = <<>> THEN s
    ELSE IF s[Len(s)][1] = t[1][1]
         THEN SubSeq(s, 1, Len(s) - 1)
              \o <<<<t[1][1], WAdd(s[Len(s)][2], t[1][2])>>>>
              \o Tail(t)
         ELSE s \o t

\* the first k bytes of s (all of s when it is shorter)
RECURSIVE BTake(_, _)
BTake(s, k) ==
    IF s = <<>> \/ k = W0 THEN <<>>
    ELSE IF Len(s) = 1
    THEN (IF WGe(k, s[1][2]) THEN s ELSE <<<<s[1][1], k>>>>)
    ELSE LET left == SubSeq(s, 1, Len(s) \div 2)
             right == SubSeq(s, (Len(s) \div 2) + 1, Len(s))
         IN  IF WGe(k, BLen(left)) THEN left \o BTake(right, WSub(k, BLen(left)))
             ELSE BTake(left, k)

\* s without its first k bytes
RECURSIVE BDrop(_, _)
BDrop(s, k) ==
    IF s = <<>> \/ k = W0 THEN s
    ELSE IF Len(s) = 1
    THEN (IF WGe(k, s[1][2]) THEN <<>> ELSE <<<<s[1][1], WSub(s[1][2], k)>>>>)
    ELSE LET left == SubSeq(s, 1, Len(s) \div 2)
             right == SubSeq(s, (Len(s) \div 2) + 1, Len(s))
         IN  IF WGe(k, BLen(left)) THEN BDrop(right, WSub(k, BLen(left)))
             ELSE BDrop(left, k) \o right

\* s[from .. from + n)
BSlice(s, from, n) == BTake(BDrop(s, from), n)

\* the byte string of a sequence of byte values
Lit(q) ==
    LET starts == SelectSeq([i \in 1..Len(q) |-> i],
                            LAMBDA i : i = 1 \/ q[i] # q[i - 1])
    IN  [k \in 1..Len(starts) |->
           <<q[starts[k]],
             WInt((IF k < Len(starts) THEN starts[k + 1] ELSE Len(q) + 1)
                  - starts[k])>>]

\* n copies of byte b
Rep(b, n) == IF n = W0 THEN <<>> ELSE <<<<b, n>>>>

\* the byte at offset i (i < BLen(s))
ByteAt(s, i) == BDrop(s, i)[1][1]

\* the byte values of a short byte string
RECURSIVE Expand(_)
Expand(s) ==
    IF s = <<>> THEN <<>>
    ELSE IF s[1][2] = W1 THEN <<s[1][1]>> \o Expand(Tail(s))
    ELSE <<s[1][1]>> \o Expand(<<<<s[1][1], WSub(s[1][2], W1)>>>> \o Tail(s))

\* u16::to_le_bytes
U16Le(n) == <<n % 256, (n \div 256) % 256>>

\* u32::to_le_bytes of a wide number below 2^32
U32Le(a) == U16Le(a[2]) \o U16Le(a[1])

\* u64::to_le_bytes of a wide number below 2^47
U64Le(a) == U16Le(a[2]) \o U16Le(a[1] % B16) \o U16Le(a[1] \div B16) \o <<0, 0>>

\* utils::le_u16 of the two bytes at offset i
le_u16(s, i) == ByteAt(s, i) + 256 * ByteAt(s, WAdd(i, W1))

\* utils::le_u32 of the four bytes at offset i
le_u32(s, i) == <<le_u16(s, WAdd(i, WInt(2))), le_u16(s, i)>>

\* utils::le_u64 of the eight bytes at offset i (high 16 bits zero)
le_u64(s, i) ==
    <<le_u16(s, WAdd(i, WInt(2))) + B16 * le_u16(s, WAdd(i, WInt(4))), le_u16(s, i)>>

-----------------------------------------------------------------------------
(* headers.rs: the header-location bit mask *)

Header_LOCAL == 1

Header_CENTRAL == 2

\* Header::default()
HeaderDefault == 3

\* Header::LOCAL & Header::CENTRAL
HeaderNone == 0

includes_local(h) == h % 2 = 1

includes_central(h) == (h \div 2) % 2 = 1

intersects(h, other) ==
    \/ (h % 2 = 1 /\ other % 2 = 1)
    \/ ((h \div 2) % 2 = 1 /\ (other \div 2) % 2 = 1)

Headers == {HeaderNone, Header_LOCAL, Header_CENTRAL, HeaderDefault}

-----------------------------------------------------------------------------
(* extra_fields.rs: ExtraFieldsContainer *)

\* next_data without the test of the declared size against what is left
next_data_unchecked(scratch) ==
    IF WLt(BLen(scratch), WInt(4)) THEN <<>>
    ELSE LET total_field_len == WInt(le_u16(scratch, WInt(2)) + 4)
         IN  <<BTake(scratch, total_field_len), BDrop(scratch, total_field_len)>>

\* ExtraFields::next_data on the unparsed rest: <<>> for None, else
\* <<body, rest>>
next_data(scratch) ==
    IF WLt(BLen(scratch), WInt(4)) THEN <<>>
    ELSE LET total_field_len == WInt(le_u16(scratch, WInt(2)) + 4)
         IN  IF WLt(BLen(scratch), total_field_len) THEN <<>>
             ELSE <<BTake(scratch, total_field_len), BDrop(scratch, total_field_len)>>

\* One TLV as add_field lays it out: id, length, data.
TlvBytes(id, data) ==
    Cat(Lit(U16Le(id) \o U16Le(BLen(data)[2])), data)

\* ExtraFieldsContainer::new
NewContainer ==
    [entries |-> <<>>, data_buffer |-> <<>>, local_size |-> 0, central_size |-> 0]

\* the rejection test with >= for >
add_field_rejects_ge(c, data, location) ==
    LET size_delta == WAdd(WInt(4), BLen(data))
        cur_l == IF includes_local(location) THEN c.local_size ELSE 0
        cur == IF includes_central(location)
               THEN (IF c.central_size > cur_l THEN c.central_size ELSE cur_l)
               ELSE cur_l
    IN  WGe(WAdd(size_delta, WInt(cur)), WInt(U16_MAX))

\* size_delta + current_size > u16::MAX, the rejection test of add_field
add_field_rejects(c, data, location) ==
    LET size_delta == WAdd(WInt(4), BLen(data))
        cur_l == IF includes_local(location) THEN c.local_size ELSE 0
        cur == IF includes_central(location)
               THEN (IF c.central_size > cur_l THEN c.central_size ELSE cur_l)
               ELSE cur_l
    IN  ~WGe(WInt(U16_MAX), WAdd(size_delta, WInt(cur)))

\* does the TLV buffer hold a field with this id?
RECURSIVE HasId(_, _)
HasId(fields, id) ==
    LET nd == next_data(fields)
    IN  IF nd = <<>> THEN FALSE
        ELSE le_u16(nd[1], W0) = id \/ HasId(nd[2], id)

\* add_field that drops a field whose id the buffer already holds
add_field_ok_dedup(c, id, data, location) ==
    IF HasId(c.data_buffer, id) THEN c
    ELSE [entries |-> Append(c.entries, location),
          data_buffer |-> Cat(c.data_buffer, TlvBytes(id, data)),
          local_size |-> IF includes_local(location)
                         THEN (c.local_size + 4 + BLen(data)[2]) % B16 ELSE c.local_size,
          central_size |-> IF includes_central(location)
                           THEN (c.central_size + 4 + BLen(data)[2]) % B16
                           ELSE c.central_size]

\* The container after add_field returned Ok.
add_field_ok(c, id, data, location) ==
    LET size_delta == (4 + BLen(data)[2]) % B16
    IN  [entries |-> Append(c.entries, location),
         data_buffer |-> Cat(c.data_buffer, TlvBytes(id, data)),
         local_size |-> IF includes_local(location)
                        THEN (c.local_size + size_delta) % B16 ELSE c.local_size,
         central_size |-> IF includes_central(location)
                          THEN (c.central_size + size_delta) % B16 ELSE c.central_size]

\* add_field without its rejection test
add_field_unchecked(c, id, data, location) ==
    <<"Ok", add_field_ok(c, id, data, location)>>

\* ExtraFieldsContainer::add_field: <<result, container>>
add_field(c, id, data, location) ==
    IF add_field_rejects(c, data, location)
    THEN <<"InvalidInput", c>>
    ELSE <<"Ok", add_field_ok(c, id, data, location)>>

\* ExtraFieldsContainer::write_extra_fields_iter: [panic, bytes], the bytes
\* handed to the writer, panic where expect("Entry should have data") fires
RECURSIVE write_extra_fields_iter_from(_, _, _)
write_extra_fields_iter_from(entries, fields, filter) ==
    IF entries = <<>> THEN [panic |-> FALSE, bytes |-> <<>>]
    ELSE LET nd == next_data(fields)
         IN  IF nd = <<>> THEN [panic |-> TRUE, bytes |-> <<>>]
             ELSE LET rest == write_extra_fields_iter_from(Tail(entries), nd[2], filter)
                  IN  IF intersects(entries[1], filter)
                      THEN [rest EXCEPT !.bytes = Cat(nd[1], @)]
                      ELSE rest

write_extra_fields_iter(c, filter) ==
    write_extra_fields_iter_from(c.entries, c.data_buffer, filter)

\* ExtraFieldsContainer::write_extra_fields: [panic, bytes]
write_extra_fields(c, filter) ==
    IF filter = Header_LOCAL /\ c.local_size = 0
    THEN [panic |-> FALSE, bytes |-> <<>>]
    ELSE IF filter = Header_CENTRAL /\ c.central_size = 0
    THEN [panic |-> FALSE, bytes |-> <<>>]
    ELSE IF c.local_size = c.central_size \/ (c.local_size = 0 \/ c.central_size = 0)
    THEN [panic |-> FALSE, bytes |-> c.data_buffer]
    ELSE write_extra_fields_iter(c, filter)

-----------------------------------------------------------------------------
(* crc.rs: CRC-32 (IEEE, reflected polynomial 0xEDB88320), bit at a time *)

RECURSIVE Xor(_, _)
Xor(a, b) ==
    IF a = 0 THEN b
    ELSE IF b = 0 THEN a
    ELSE ((a + b) % 2) + 2 * Xor(a \div 2, b \div 2)

WXor(a, b) == <<Xor(a[1], b[1]), Xor(a[2], b[2])>>

WNot32(a) == <<65535 - a[1], 65535 - a[2]>>

CRC_POLY == <<60856, 33568>>

CrcShift(r) ==
    LET s == <<r[1] \div 2, (r[2] \div 2) + 32768 * (r[1] % 2)>>
    IN  IF r[2] % 2 = 1 THEN WXor(s, CRC_POLY) ELSE s

RECURSIVE CrcBits(_, _)
CrcBits(r, k) == IF k = 0 THEN r ELSE CrcBits(CrcShift(r), k - 1)

CrcByte(r, b) == CrcBits(<<r[1], Xor(r[2], b)>>, 8)

\* The register after n copies of byte b.  Feeding 2^32 - 1 zero bytes
\* returns the register to its value (x has order 2^32 - 1 modulo the
\* polynomial), which is how a 4 GiB zero payload is digested here.
RECURSIVE CrcRun(_, _, _)
CrcRun(r, b, n) ==
    IF n = W0 THEN r
    ELSE IF b = 0 /\ WGe(n, U32_MAX) THEN CrcRun(r, b, WSub(n, U32_MAX))
    ELSE LET next == CrcByte(r, b)
         IN  IF next[1] >= 0 THEN CrcRun(next, b, WSub(n, W1)) ELSE next

RECURSIVE CrcBytes(_, _)
CrcBytes(r, s) ==
    IF s = <<>> THEN r
    ELSE LET next == CrcRun(r, s[1][1], s[1][2])
         IN  IF next[1] >= 0 THEN CrcBytes(next, Tail(s)) ELSE next

\* crc::crc32_chunk(buf, prev)
crc32_chunk(buf, prev) == WNot32(CrcBytes(WNot32(prev), buf))

\* crc::crc32
crc32(buf) == crc32_chunk(buf, W0)

-----------------------------------------------------------------------------
(* writer.rs: constants, records and byte layouts *)

ZIP64_VERSION_NEEDED == 45

ZIP64_EOCD_SIZE == 56

FLAG_DATA_DESCRIPTOR == 8

FLAG_UTF8_ENCODING == 2048

ZIP64_THRESHOLD_FILE_SIZE == U32_MAX

ZIP64_THRESHOLD_OFFSET == U32_MAX

ZIP64_THRESHOLD_ENTRIES == 65535

\* ExtraFieldId::ZIP64 and ExtraFieldId::EXTENDED_TIMESTAMP
ExtraFieldId_ZIP64 == 1

ExtraFieldId_EXTENDED_TIMESTAMP == 21589

\* CompressionMethod::Store.as_id()
CompressionMethod_Store == 0

\* the signatures as they lie in the stream (little-endian)
LOCAL_HEADER_SIGNATURE == <<80, 75, 3, 4>>

CENTRAL_HEADER_SIGNATURE == <<80, 75, 1, 2>>

DATA_DESCRIPTOR_SIGNATURE == <<80, 75, 7, 8>>

END_OF_CENTRAL_DIR_SIGNAUTRE_BYTES == <<80, 75, 5, 6>>

END_OF_CENTRAL_DIR_SIGNATURE64 == <<80, 75, 6, 6>>

END_OF_CENTRAL_DIR_LOCATOR_SIGNATURE == <<80, 75, 6, 7>>

None == [some |-> FALSE]

\* UtcDateTime 2023-06-15T14:30:45Z with DosDateTime::from(..).into_parts()
\* and to_unix() worked out: (14 << 11 | 30 << 5 | 22, 43 << 9 | 6 << 5 | 15)
\* and 1686839445
SomeTime ==
    [some |-> TRUE, dos_time |-> 29654, dos_date |-> 22223, unix |-> <<25739, 8341>>]

dos_parts(modification_time) ==
    IF modification_time.some
    THEN <<modification_time.dos_time, modification_time.dos_date>>
    ELSE <<0, 0>>

\* ZipLocalFileHeaderFixed::write: the 30 bytes of a local file header
ZipLocalFileHeaderFixed_write(h) ==
    Lit(h.signature \o U16Le(h.version_needed) \o U16Le(h.flags)
        \o U16Le(h.compression_method) \o U16Le(h.last_mod_time)
        \o U16Le(h.last_mod_date) \o U32Le(h.crc32) \o U32Le(h.compressed_size)
        \o U32Le(h.uncompressed_size) \o U16Le(h.file_name_len)
        \o U16Le(h.extra_field_len))

\* ZipFileHeaderFixed::write: the 46 bytes of a central directory header
ZipFileHeaderFixed_write(h) ==
    Lit(h.signature \o U16Le(h.version_made_by) \o U16Le(h.version_needed)
        \o U16Le(h.flags) \o U16Le(h.compression_method) \o U16Le(h.last_mod_time)
        \o U16Le(h.last_mod_date) \o U32Le(h.crc32) \o U32Le(h.compressed_size)
        \o U32Le(h.uncompressed_size) \o U16Le(h.file_name_len)
        \o U16Le(h.extra_field_len) \o U16Le(h.file_comment_len)
        \o U16Le(h.disk_number_start) \o U16Le(h.internal_file_attrs)
        \o U32Le(h.external_file_attrs) \o U32Le(h.local_header_offset))

\* str::trim_end_matches('/'): the whole last run goes when it is of '/'
trim_end_matches_slash(name) ==
    IF name # <<>> /\ name[Len(name)][1] = 47 THEN SubSeq(name, 1, Len(name) - 1)
    ELSE name

\* ZipFilePath::is_dir: the path ends in '/'
is_dir(file_path) == file_path # <<>> /\ file_path[Len(file_path)][1] = 47

\* ZipFilePath::needs_utf8_encoding: some byte is not ASCII
needs_utf8_encoding(file_path) ==
    \E i \in 1..Len(file_path) : file_path[i][1] >= 128

\* ZipFilePath::len() > u16::MAX
name_too_long(file_path) == WGe(BLen(file_path), WInt(65536))

\* FileHeader::needs_zip64
needs_zip64(f) ==
    \/ WGe(f.compressed_size, ZIP64_THRESHOLD_FILE_SIZE)
    \/ WGe(f.uncompressed_size, ZIP64_THRESHOLD_FILE_SIZE)
    \/ WGe(f.local_header_offset, ZIP64_THRESHOLD_OFFSET)

\* the `sink` buffer of finalize_extra_fields: the overflowed values
zip64_extra_data(f) ==
    Lit((IF WGe(f.uncompressed_size, ZIP64_THRESHOLD_FILE_SIZE)
         THEN U64Le(f.uncompressed_size) ELSE <<>>)
        \o (IF WGe(f.compressed_size, ZIP64_THRESHOLD_FILE_SIZE)
            THEN U64Le(f.compressed_size) ELSE <<>>)
        \o (IF WGe(f.local_header_offset, ZIP64_THRESHOLD_OFFSET)
            THEN U64Le(f.local_header_offset) ELSE <<>>))

\* FileHeader::finalize_extra_fields: <<result, file header>>
finalize_extra_fields(f) ==
    IF needs_zip64(f)
    THEN LET r == add_field(f.extra_fields, ExtraFieldId_ZIP64, zip64_extra_data(f),
                            Header_CENTRAL)
         IN  <<r[1], [f EXCEPT !.extra_fields = r[2]]>>
    ELSE <<"Ok", f>>

\* the data descriptor ZipEntryWriter::finish writes
data_descriptor_bytes(output) ==
    IF \/ WGe(output.compressed_size, ZIP64_THRESHOLD_FILE_SIZE)
       \/ WGe(output.uncompressed_size, ZIP64_THRESHOLD_FILE_SIZE)
    THEN Lit(DATA_DESCRIPTOR_SIGNATURE \o U32Le(output.crc)
             \o U64Le(output.compressed_size) \o U64Le(output.uncompressed_size))
    ELSE Lit(DATA_DESCRIPTOR_SIGNATURE \o U32Le(output.crc)
             \o U32Le(AsU32(output.compressed_size))
             \o U32Le(AsU32(output.uncompressed_size)))

\* write_zip64_eocd: the 56 bytes of the ZIP64 end of central directory record
zip64_eocd_bytes(total_entries, central_directory_size, central_directory_offset) ==
    Lit(END_OF_CENTRAL_DIR_SIGNATURE64 \o U64Le(WInt(ZIP64_EOCD_SIZE - 12))
        \o U16Le(ZIP64_VERSION_NEEDED) \o U16Le(ZIP64_VERSION_NEEDED)
        \o U32Le(W0) \o U32Le(W0)
        \o U64Le(WInt(total_entries)) \o U64Le(WInt(total_entries))
        \o U64Le(central_directory_size) \o U64Le(central_directory_offset))

\* write_zip64_eocd_locator: the 20 bytes of the ZIP64 locator
zip64_eocd_locator_bytes(zip64_eocd_offset) ==
    Lit(END_OF_CENTRAL_DIR_LOCATOR_SIGNATURE \o U32Le(W0) \o U64Le(zip64_eocd_offset)
        \o U32Le(W1))

\* the 22 bytes of the end of central directory record finish writes
eocd_bytes(total_entries, central_directory_size, central_directory_offset) ==
    LET entries_count == (IF total_entries < ZIP64_THRESHOLD_ENTRIES
                          THEN total_entries ELSE ZIP64_THRESHOLD_ENTRIES) % B16
    IN  Lit(END_OF_CENTRAL_DIR_SIGNAUTRE_BYTES \o <<0, 0, 0, 0>>
            \o U16Le(entries_count) \o U16Le(entries_count)
            \o U32Le(AsU32(WMin(central_directory_size, ZIP64_THRESHOLD_OFFSET)))
            \o U32Le(AsU32(WMin(central_directory_offset, ZIP64_THRESHOLD_OFFSET)))
            \o U16Le(0))

-----------------------------------------------------------------------------
(* writer.rs: CountWriter over the sink, and the header writers *)

\* A CountWriter with its sink is a record
\*   out   : what the sink accepted, one element [tag, bytes] per record
\*           written (the tag names the record and is not part of the stream)
\*   count : CountWriter::count
\*   room  : None for a sink that accepts everything, else the number of
\*           bytes the sink accepts before its writes fail
\*   err   : an I/O error was returned within the current operation
Some(n) == [some |-> TRUE, n |-> n]

\* CountWriter::new(writer, count)
CountWriter_new_zero(room, count) ==
    [out |-> <<>>, count |-> W0, room |-> room, err |-> FALSE]

CountWriter_new(room, count) ==
    [out |-> <<>>, count |-> count, room |-> room, err |-> FALSE]

\* the number of bytes of buf the sink takes
Accepted(w, buf) ==
    IF w.room.some THEN WMin(BLen(buf), w.room.n) ELSE BLen(buf)

\* CountWriter::write for k accepted bytes: count grows by what was written
CountWriter_write_uncounted(w, tag, buf, k) ==
    [w EXCEPT !.out = Append(@, [tag |-> tag, bytes |-> BTake(buf, k)]),
              !.room = IF @.some THEN Some(WSub(@.n, k)) ELSE @]

CountWriter_write(w, tag, buf, k) ==
    [w EXCEPT !.out = Append(@, [tag |-> tag, bytes |-> BTake(buf, k)]),
              !.count = WAdd(@, k),
              !.room = IF @.some THEN Some(WSub(@.n, k)) ELSE @]

\* Write::write_all on the CountWriter, with `?`: after an error nothing
\* more is written in the operation
write_all(w, tag, buf) ==
    IF w.err THEN w
    ELSE LET k == Accepted(w, buf)
         IN  [CountWriter_write(w, tag, buf, k) EXCEPT !.err = (k # BLen(buf))]

\* the payload of the Extended Timestamp field: flags 1, then
\* `to_unix().max(0) as u32` little-endian
timestamp_data(datetime) == Lit(<<1>> \o U32Le(AsU32(datetime.unix)))

\* the version_needed field of a local header
local_version_needed == 20

\* the Extended Timestamp field write_local_header adds for Some(datetime):
\* the result of add_field and the container it leaves
timestamp_field(options) ==
    IF options.modification_time.some
    THEN add_field(options.extra_fields, ExtraFieldId_EXTENDED_TIMESTAMP,
                   timestamp_data(options.modification_time), Header_CENTRAL)
    ELSE <<"Ok", options.extra_fields>>

\* the ZipLocalFileHeaderFixed write_local_header fills in
local_header(file_path, flags, compression_method, parts, extra_field_len) ==
    [signature |-> LOCAL_HEADER_SIGNATURE,
     version_needed |-> local_version_needed,
     flags |-> flags,
     compression_method |-> compression_method,
     last_mod_time |-> parts[1],
     last_mod_date |-> parts[2],
     crc32 |-> W0,
     compressed_size |-> W0,
     uncompressed_size |-> W0,
     file_name_len |-> BLen(file_path)[2],
     extra_field_len |-> extra_field_len]

\* the three writes of write_local_header: header, name, LOCAL extra fields
\* (x is what write_extra_fields makes of the container)
write_local_records(w, header_bytes, file_path, x) ==
    IF x.panic
    THEN write_all(write_all(w, "lfh", header_bytes), "name", file_path)
    ELSE write_all(write_all(write_all(w, "lfh", header_bytes), "name", file_path),
                   "lextra", x.bytes)

local_header_result(w3, x, extra_fields) ==
    [result |-> IF w3.err THEN "Io" ELSE IF x.panic THEN "Panic" ELSE "Ok",
     writer |-> w3, extra_fields |-> extra_fields]

\* write_local_header after the timestamp field was added with result r
write_local_header_with(w, file_path, flags, compression_method, parts, r, x) ==
    IF r[1] # "Ok"
    THEN [result |-> r[1], writer |-> w, extra_fields |-> r[2]]
    ELSE local_header_result(
           write_local_records(w,
               ZipLocalFileHeaderFixed_write(
                   local_header(file_path, flags, compression_method, parts,
                                r[2].local_size)),
               file_path, x),
           x, r[2])

with_local_extras(w, file_path, flags, compression_method, parts, r) ==
    write_local_header_with(w, file_path, flags, compression_method, parts, r,
                            write_extra_fields(r[2], Header_LOCAL))

\* ZipArchiveWriter::write_local_header
\*   -> [result, writer, extra_fields (of the options, as left behind)]
write_local_header(w, file_path, flags, compression_method, options) ==
    with_local_extras(w, file_path, flags, compression_method,
                      dos_parts(options.modification_time), timestamp_field(options))

\* one central directory header of ZipArchiveWriter::finish: the fixed
\* part, the name out of file_names, the extra fields
RECURSIVE write_central_headers(_, _, _, _)
write_central_headers(w, fs, names, name_offset) ==
    IF fs = <<>> THEN w
    ELSE LET file == fs[1]
             version_needed == IF needs_zip64(file) THEN ZIP64_VERSION_NEEDED ELSE 20
             parts == dos_parts(file.modification_time)
             header ==
                 [signature |-> CENTRAL_HEADER_SIGNATURE,
                  version_made_by |-> version_needed,
                  version_needed |-> version_needed,
                  flags |-> file.flags,
                  compression_method |-> file.compression_method,
                  last_mod_time |-> parts[1],
                  last_mod_date |-> parts[2],
                  crc32 |-> file.crc,
                  compressed_size |->
                      AsU32(WMin(file.compressed_size, ZIP64_THRESHOLD_FILE_SIZE)),
                  uncompressed_size |->
                      AsU32(WMin(file.uncompressed_size, ZIP64_THRESHOLD_FILE_SIZE)),
                  file_name_len |-> file.name_len,
                  extra_field_len |-> file.extra_fields.central_size,
                  file_comment_len |-> 0,
                  disk_number_start |-> 0,
                  internal_file_attrs |-> 0,
                  external_file_attrs |-> W0,
                  local_header_offset |->
                      AsU32(WMin(file.local_header_offset, ZIP64_THRESHOLD_OFFSET))]
             new_name_offset == WAdd(name_offset, WInt(file.name_len))
             x == write_extra_fields(file.extra_fields, Header_CENTRAL)
             w1 == write_all(w, "cdh", ZipFileHeaderFixed_write(header))
             w2 == write_all(w1, "cname",
                             BSlice(names, name_offset, WInt(file.name_len)))
             w3 == write_all(w2, "cextra", x.bytes)
         IN  write_central_headers(w3, Tail(fs), names, new_name_offset)

\* files.iter().any(|f| f.needs_zip64())
any_needs_zip64(fs) == \E i \in 1..Len(fs) : needs_zip64(fs[i])

archive_needs_zip64_by_entries(total_entries, central_directory_offset, fs) ==
    \/ total_entries >= ZIP64_THRESHOLD_ENTRIES
    \/ any_needs_zip64(fs)

\* the archive-level decision of ZipArchiveWriter::finish
archive_needs_zip64(total_entries, central_directory_offset, fs) ==
    \/ total_entries >= ZIP64_THRESHOLD_ENTRIES
    \/ WGe(central_directory_offset, ZIP64_THRESHOLD_OFFSET)
    \/ any_needs_zip64(fs)

\* the end of ZipArchiveWriter::finish, after the central directory headers
\* left the CountWriter as wcd
write_end_records(wcd, total_entries, central_directory_offset, zip64) ==
    IF zip64
    THEN write_all(
           write_all(
             write_all(wcd, "z64",
                       zip64_eocd_bytes(total_entries,
                                        WSub(wcd.count, central_directory_offset),
                                        central_directory_offset)),
             "z64loc", zip64_eocd_locator_bytes(wcd.count)),
           "eocd",
           eocd_bytes(total_entries, WSub(wcd.count, central_directory_offset),
                      central_directory_offset))
    ELSE write_all(wcd, "eocd",
                   eocd_bytes(total_entries, WSub(wcd.count, central_directory_offset),
                              central_directory_offset))

\* the end records ahead of the central directory headers
archive_finish_end_first(w, fs, names) ==
    write_central_headers(
        write_end_records(w, Len(fs), w.count,
                          archive_needs_zip64(Len(fs), w.count, fs)),
        fs, names, W0)

\* ZipArchiveWriter::finish on the writer's fields -> the CountWriter after it
archive_finish(w, fs, names) ==
    write_end_records(write_central_headers(w, fs, names, W0), Len(fs), w.count,
                      archive_needs_zip64(Len(fs), w.count, fs))

-----------------------------------------------------------------------------
(* State *)

VARIABLES
    xc,     \* an ExtraFieldsContainer driven directly (specification SpecExtras)
    xadded, \* history: the arguments of the add_field calls on xc that returned Ok
    xcall,  \* the last add_field call on xc: its arguments, result and pre-state
    xout,   \* the last write_extra_fields call on xc: its filter and output
    offset0,    \* the offset given to ZipArchiveWriterBuilder::with_offset
    writer,     \* ZipArchiveWriter::writer, the CountWriter with its sink
    files,      \* ZipArchiveWriter::files
    file_names, \* ZipArchiveWriter::file_names
    consumed,   \* the archive writer was moved into finish
    builder,    \* the live ZipFileBuilder / ZipDirBuilder, or None
    ew,         \* the live ZipEntryWriter, or None
    dw,         \* the live ZipDataWriter, or None
    desc,       \* the DataDescriptorOutput a ZipDataWriter::finish returned, or None
    call,       \* the last operation and its result
    hist,       \* history: one record per create call
    budget      \* history: the write calls and the builder option calls made

xvars == <<xc, xadded, xcall, xout>>

wvars == <<offset0, writer, files, file_names, consumed, builder, ew, dw, desc,
           call, hist, budget>>

\* The reading side: each of these variables belongs to one specification
\* and rests at Idle in the others.
VARIABLES
    ra,         \* a read_at_least_at call on a ReaderAt
    locator,    \* a file handed to the locator, and what was located in it
    mx,         \* threads calling read_at on one MutexReader
    rr,         \* a RangeReader and what was read from it
    ef          \* an ExtraFields iterator and what it yielded

rvars == <<ra, locator, mx, rr, ef>>

vars == <<xc, xadded, xcall, xout, offset0, writer, files, file_names, consumed,
          builder, ew, dw, desc, call, hist, budget, ra, locator, mx, rr, ef>>

Idle == [pc |-> "idle"]

RIdle == ra = Idle /\ locator = Idle /\ mx = Idle /\ rr = Idle /\ ef = Idle

NoCall == [op |-> "none"]

-----------------------------------------------------------------------------
(* SpecExtras: add_field and write_extra_fields applied to one container *)

\* the largest number of fields added to one container
MaxFields == 2

Zeros(n) == Rep(0, WInt(n))

\* (id, data) pairs offered to add_field: two short fields with one id, and
\* zero-filled fields that fill a location exactly (4 + 65531 = 65535, and
\* 6 + 4 + 65525 = 65535) or overflow it alone (4 + 65532 = 65536)
XFieldInputs ==
    { <<26214, Lit(<<97, 98>>)>>, <<26214, Lit(<<99, 100>>)>>,
      <<30583, Zeros(65525)>>, <<30583, Zeros(65531)>>, <<30583, Zeros(65532)>> }

\* the archive writer of ZipArchiveWriterBuilder::with_offset(n).build(sink)
\* before any call on it
InitWriter(n, room) ==
    /\ offset0 = n
    /\ writer = CountWriter_new(room, n)
    /\ files = <<>>
    /\ file_names = <<>>
    /\ consumed = FALSE
    /\ builder = None
    /\ ew = None
    /\ dw = None
    /\ desc = None
    /\ call = NoCall
    /\ hist = <<>>
    /\ budget = [writes |-> 0, options |-> 0]

InitX ==
    /\ RIdle
    /\ xc = NewContainer
    /\ xadded = <<>>
    /\ xcall = NoCall
    /\ xout = NoCall
    /\ InitWriter(W0, None)

XAddField(id, data, location) ==
    /\ Len(xc.entries) < MaxFields
    /\ LET r == add_field(xc, id, data, location)
       IN  /\ xc' = r[2]
           /\ xcall' = [op |-> "add_field", id |-> id, data |-> data,
                        location |-> location, result |-> r[1], pre |-> xc]
           /\ xadded' = IF r[1] = "Ok"
                        THEN Append(xadded, [id |-> id, data |-> data, location |-> location])
                        ELSE xadded
    /\ xout' = NoCall
    /\ UNCHANGED <<wvars, rvars>>

XWriteExtraFields(filter) ==
    /\ xout = NoCall
    /\ LET r == write_extra_fields(xc, filter)
       IN  xout' = [op |-> "write_extra_fields", filter |-> filter,
                    panic |-> r.panic, bytes |-> r.bytes]
    /\ UNCHANGED <<xc, xadded, xcall>>
    /\ UNCHANGED <<wvars, rvars>>

NextX ==
    \/ \E f \in XFieldInputs, location \in Headers : XAddField(f[1], f[2], location)
    \/ \E filter \in {Header_LOCAL, Header_CENTRAL} : XWriteExtraFields(filter)

SpecExtras == InitX /\ [][NextX]_vars

-----------------------------------------------------------------------------
(* Spec: the archive writer driven through its public operations *)

\* the largest number of create calls in one run
MaxEntries == 2

\* the largest number of write calls (entry writer and data writer) in one run
MaxWrites == 2

\* the largest number of builder option calls (last_modified, extra_field)
\* in one run
MaxOptions == 1

\* with_offset arguments: none, one that puts the second entry or the
\* central directory past u32::MAX, and u32::MAX itself
Offsets == {W0, <<65535, 65500>>, U32_MAX}

\* sinks: one that accepts everything, one that fails after SinkRoom bytes
\* (the latter is explored with offset 0 only)
SinkRoom == 40

Rooms == {None, Some(WInt(SinkRoom))}

\* entry names: "a" and "d/"
Names == {Lit(<<97>>), Lit(<<100, 47>>)}

\* buffers handed to write: "Hi" and 2^32 - 1 zero bytes
Big == Rep(0, U32_MAX)

Buffers == {Lit(<<72, 105>>), Big}

\* the extra fields a builder is given: id 0x6666 with data "ab"
UserFields == {[id |-> 26214, data |-> Lit(<<97, 98>>)]}

Init ==
    /\ RIdle
    /\ xc = NewContainer
    /\ xadded = <<>>
    /\ xcall = NoCall
    /\ xout = NoCall
    /\ \E n \in Offsets, room \in Rooms :
          /\ room.some => n = W0
          /\ InitWriter(n, room)

\* The builders and the entry writer hold `&mut ZipArchiveWriter`: while one
\* of them lives the archive writer cannot be used.
archive_borrowed_never == FALSE

archive_borrowed == builder.some \/ ew.some

\* a fresh operation on the CountWriter
Begin(w) == [w EXCEPT !.err = FALSE]

Returned(op, result) == [op |-> op, result |-> result]

\* ZipArchiveWriter::new_file / new_dir: the builder with its defaults
NewBuilder(kind, name) ==
    /\ ~consumed
    /\ ~archive_borrowed
    /\ Len(hist) < MaxEntries
    /\ builder' = [some |-> TRUE, kind |-> kind, name |-> name,
                   compression_method |-> CompressionMethod_Store,
                   modification_time |-> None,
                   unix_permissions |-> None,
                   extra_fields |-> NewContainer,
                   added |-> <<>>]
    /\ call' = Returned(IF kind = "file" THEN "new_file" ELSE "new_dir", "Ok")
    /\ UNCHANGED <<offset0, writer, files, file_names, consumed, ew, dw, desc,
                   hist, budget>>
    /\ UNCHANGED <<xvars, rvars>>

NewFile(name) == NewBuilder("file", name)

NewDir(name) == NewBuilder("dir", name)

\* ZipFileBuilder::last_modified / ZipDirBuilder::last_modified
LastModified ==
    /\ builder.some
    /\ budget.options < MaxOptions
    /\ builder' = [builder EXCEPT !.modification_time = SomeTime]
    /\ budget' = [budget EXCEPT !.options = @ + 1]
    /\ call' = Returned("last_modified", "Ok")
    /\ UNCHANGED <<offset0, writer, files, file_names, consumed, ew, dw, desc, hist>>
    /\ UNCHANGED <<xvars, rvars>>

\* ZipFileBuilder::extra_field / ZipDirBuilder::extra_field: an error drops
\* the builder, which was moved into the call
ExtraField(id, data, location) ==
    /\ builder.some
    /\ budget.options < MaxOptions
    /\ LET r == add_field(builder.extra_fields, id, data, location)
       IN  /\ builder' = IF r[1] = "Ok"
                         THEN [builder EXCEPT
                                 !.extra_fields = r[2],
                                 !.added = Append(@, [id |-> id, data |-> data,
                                                      location |-> location])]
                         ELSE None
           /\ call' = Returned("extra_field", r[1])
    /\ budget' = [budget EXCEPT !.options = @ + 1]
    /\ UNCHANGED <<offset0, writer, files, file_names, consumed, ew, dw, desc, hist>>
    /\ UNCHANGED <<xvars, rvars>>

\* the flags word of a new entry
entry_flags(base, file_path) ==
    IF needs_utf8_encoding(file_path) THEN base + FLAG_UTF8_ENCODING ELSE base

\* ZipEntryOptions out of a builder
Options(b) ==
    [compression_method |-> b.compression_method,
     modification_time |-> b.modification_time,
     unix_permissions |-> b.unix_permissions,
     extra_fields |-> b.extra_fields]

\* the ZipEntryWriter new_file_with_options returns when the local header
\* was written (r is what write_local_header returned)
entry_writer(r, name_len, local_header_offset, flags, options) ==
    IF r.result = "Ok"
    THEN [some |-> TRUE,
          compressed_bytes |-> W0,
          name_len |-> name_len,
          local_header_offset |-> local_header_offset,
          compression_method |-> options.compression_method,
          flags |-> flags,
          modification_time |-> options.modification_time,
          unix_permissions |-> options.unix_permissions,
          extra_fields |-> r.extra_fields]
    ELSE None

new_file_result(r, names, name_len, local_header_offset, flags, options) ==
    [result |-> r.result, writer |-> r.writer, file_names |-> names,
     ew |-> entry_writer(r, name_len, local_header_offset, flags, options)]

new_file_with_path(w, names, file_path, flags, options) ==
    IF name_too_long(file_path)
    THEN [result |-> "InvalidInput", writer |-> w, file_names |-> names, ew |-> None]
    ELSE new_file_result(
           write_local_header(w, file_path, flags, options.compression_method, options),
           Cat(names, file_path), BLen(file_path)[2], w.count, flags, options)

\* ZipArchiveWriter::new_file_with_options
\*   -> [result, writer, file_names, ew (the ZipEntryWriter when Ok)]
new_file_with_options(w, names, name, options) ==
    new_file_with_path(w, names, trim_end_matches_slash(name),
                       entry_flags(FLAG_DATA_DESCRIPTOR, trim_end_matches_slash(name)),
                       options)

\* the FileHeader new_dir_with_options pushes
dir_file_header(r, name_len, local_header_offset, flags, options) ==
    [name_len |-> name_len,
     compression_method |-> CompressionMethod_Store,
     local_header_offset |-> local_header_offset,
     compressed_size |-> W0,
     uncompressed_size |-> W0,
     crc |-> W0,
     flags |-> flags,
     modification_time |-> options.modification_time,
     unix_permissions |-> options.unix_permissions,
     extra_fields |-> r.extra_fields]

new_dir_result(r, fs, names, name_len, local_header_offset, flags, options) ==
    [result |-> r.result, writer |-> r.writer, file_names |-> names,
     files |-> IF r.result = "Ok"
               THEN Append(fs, dir_file_header(r, name_len, local_header_offset,
                                               flags, options))
               ELSE fs]

\* new_dir_with_options storing the name ahead of the validation
new_dir_with_options_name_first(w, fs, names, name, options) ==
    IF ~is_dir(name) \/ name_too_long(name)
    THEN [result |-> "InvalidInput", writer |-> w, file_names |-> Cat(names, name),
          files |-> fs]
    ELSE new_dir_result(
           write_local_header(w, name, entry_flags(0, name), CompressionMethod_Store,
                              options),
           fs, Cat(names, name), BLen(name)[2], w.count, entry_flags(0, name), options)

\* ZipArchiveWriter::new_dir_with_options
\*   -> [result, writer, file_names, files]
new_dir_with_options(w, fs, names, name, options) ==
    IF ~is_dir(name) \/ name_too_long(name)
    THEN [result |-> "InvalidInput", writer |-> w, file_names |-> names, files |-> fs]
    ELSE new_dir_result(
           write_local_header(w, name, entry_flags(0, name), CompressionMethod_Store,
                              options),
           fs, Cat(names, name), BLen(name)[2], w.count, entry_flags(0, name), options)

\* what the history keeps of a create call: the builder's settings, the path
\* as written, where the local header went in the sink's log, and the state
\* of the entry ("open", "finished", "dropped", "failed", "rejected")
HistEntry(b, file_path, lfh, state) ==
    [kind |-> b.kind, given |-> b.name, name |-> file_path,
     modification_time |-> b.modification_time,
     added |-> b.added, lfh |-> lfh, state |-> state, fed |-> <<>>, dd |-> 0]

CreateState(result) ==
    IF result = "Ok" THEN "open"
    ELSE IF result = "InvalidInput" THEN "rejected" ELSE "failed"

CreateFileReturns(r) ==
    /\ writer' = r.writer
    /\ file_names' = r.file_names
    /\ ew' = IF r.ew.some THEN r.ew @@ [h |-> Len(hist) + 1] ELSE None
    /\ call' = Returned("create", r.result)
    /\ hist' = Append(hist,
                      HistEntry(builder, trim_end_matches_slash(builder.name),
                                Len(writer.out) + 1, CreateState(r.result)))

\* ZipFileBuilder::create
CreateFile ==
    /\ builder.some /\ builder.kind = "file"
    /\ CreateFileReturns(new_file_with_options(Begin(writer), file_names, builder.name,
                                               Options(builder)))
    /\ builder' = None
    /\ UNCHANGED <<offset0, files, consumed, dw, desc, budget>>
    /\ UNCHANGED <<xvars, rvars>>

CreateDirReturns(r) ==
    /\ writer' = r.writer
    /\ file_names' = r.file_names
    /\ files' = r.files
    /\ call' = Returned("create", r.result)
    /\ hist' = Append(hist,
                      HistEntry(builder, builder.name, Len(writer.out) + 1,
                                IF r.result = "Ok" THEN "finished"
                                ELSE CreateState(r.result)))

\* ZipDirBuilder::create
CreateDir ==
    /\ builder.some /\ builder.kind = "dir"
    /\ CreateDirReturns(new_dir_with_options(Begin(writer), files, file_names,
                                             builder.name, Options(builder)))
    /\ builder' = None
    /\ UNCHANGED <<offset0, consumed, ew, dw, desc, budget>>
    /\ UNCHANGED <<xvars, rvars>>

\* the sink's Write::write refuses a non-empty buffer when it has no room
SinkRefuses(w, buf) == w.room.some /\ w.room.n = W0 /\ buf # <<>>

\* <ZipEntryWriter as Write>::write
EntryWrite(buf) ==
    /\ ew.some
    /\ budget.writes < MaxWrites
    /\ budget' = [budget EXCEPT !.writes = @ + 1]
    /\ IF SinkRefuses(writer, buf)
       THEN /\ call' = Returned("write", "Io")
            /\ UNCHANGED <<writer, ew>>
       ELSE LET bytes_written == Accepted(writer, buf)
            IN  /\ writer' = CountWriter_write(Begin(writer), "data", buf, bytes_written)
                /\ ew' = [ew EXCEPT !.compressed_bytes = WAdd(@, bytes_written)]
                /\ call' = Returned("write", "Ok")
    /\ UNCHANGED <<offset0, files, file_names, consumed, builder, dw, desc, hist>>
    /\ UNCHANGED <<xvars, rvars>>

\* ZipDataWriter::new(inner): inner is the entry writer ("entry"), or a
\* writer of the caller's that takes every byte and passes none of them on
\* to the entry ("other")
NewDataWriter(inner) ==
    /\ ew.some /\ ~dw.some /\ ~desc.some
    /\ dw' = [some |-> TRUE, inner |-> inner, uncompressed_bytes |-> W0, crc |-> W0,
              fed |-> <<>>]
    /\ call' = Returned("data_writer", "Ok")
    /\ UNCHANGED <<offset0, writer, files, file_names, consumed, builder, ew, desc,
                   hist, budget>>
    /\ UNCHANGED <<xvars, rvars>>

\* <ZipDataWriter as Write>::write
DataWrite(buf) ==
    /\ dw.some
    /\ budget.writes < MaxWrites
    /\ budget' = [budget EXCEPT !.writes = @ + 1]
    /\ IF dw.inner = "entry" /\ SinkRefuses(writer, buf)
       THEN /\ call' = Returned("write", "Io")
            /\ UNCHANGED <<writer, ew, dw>>
       ELSE LET bytes_written == IF dw.inner = "entry" THEN Accepted(writer, buf)
                                 ELSE BLen(buf)
            IN  /\ IF dw.inner = "entry"
                   THEN /\ writer' = CountWriter_write(Begin(writer), "data", buf,
                                                       bytes_written)
                        /\ ew' = [ew EXCEPT !.compressed_bytes = WAdd(@, bytes_written)]
                   ELSE UNCHANGED <<writer, ew>>
                /\ dw' = [dw EXCEPT
                            !.uncompressed_bytes = WAdd(@, bytes_written),
                            !.crc = crc32_chunk(BTake(buf, bytes_written), @),
                            !.fed = Cat(@, BTake(buf, bytes_written))]
                /\ call' = Returned("write", "Ok")
    /\ UNCHANGED <<offset0, files, file_names, consumed, builder, desc, hist>>
    /\ UNCHANGED <<xvars, rvars>>

\* ZipDataWriter::finish
DataFinish ==
    /\ dw.some
    /\ desc' = [some |-> TRUE, crc |-> dw.crc, compressed_size |-> W0,
                uncompressed_size |-> dw.uncompressed_bytes, fed |-> dw.fed]
    /\ dw' = None
    /\ call' = Returned("data_finish", "Ok")
    /\ UNCHANGED <<offset0, writer, files, file_names, consumed, builder, ew, hist,
                   budget>>
    /\ UNCHANGED <<xvars, rvars>>

\* the FileHeader ZipEntryWriter::finish builds
entry_file_header_no_crc(e, output) ==
    [name_len |-> e.name_len,
     compression_method |-> e.compression_method,
     local_header_offset |-> e.local_header_offset,
     compressed_size |-> output.compressed_size,
     uncompressed_size |-> output.uncompressed_size,
     crc |-> W0,
     flags |-> e.flags,
     modification_time |-> e.modification_time,
     unix_permissions |-> e.unix_permissions,
     extra_fields |-> e.extra_fields]

entry_file_header(e, output) ==
    [name_len |-> e.name_len,
     compression_method |-> e.compression_method,
     local_header_offset |-> e.local_header_offset,
     compressed_size |-> output.compressed_size,
     uncompressed_size |-> output.uncompressed_size,
     crc |-> output.crc,
     flags |-> e.flags,
     modification_time |-> e.modification_time,
     unix_permissions |-> e.unix_permissions,
     extra_fields |-> e.extra_fields]

entry_finish_result(w1, r) ==
    [result |-> IF w1.err THEN "Io" ELSE r[1], writer |-> w1, file_header |-> r[2]]

entry_finish_with(w, e, output) ==
    entry_finish_result(write_all(w, "dd", data_descriptor_bytes(output)),
                        finalize_extra_fields(entry_file_header(e, output)))

\* finish that keeps the compressed size of the descriptor it is given
entry_finish_as_given(w, e, given) == entry_finish_with(w, e, given)

\* ZipEntryWriter::finish on the entry writer e with the CountWriter w
\*   -> [result, writer, file_header]
entry_finish(w, e, given) ==
    entry_finish_with(w, e, [given EXCEPT !.compressed_size = e.compressed_bytes])

EntryFinishReturns(r) ==
    /\ writer' = r.writer
    /\ files' = IF r.result = "Ok" THEN Append(files, r.file_header) ELSE files
    /\ call' = Returned("entry_finish", r.result)
    /\ hist' = [hist EXCEPT
                  ![ew.h].state = IF r.result = "Ok" THEN "finished" ELSE "failed",
                  ![ew.h].fed = desc.fed,
                  ![ew.h].dd = Len(writer.out) + 1]

\* ZipEntryWriter::finish(output): the entry writer is moved into the call
EntryFinish ==
    /\ ew.some /\ desc.some /\ ~dw.some
    /\ EntryFinishReturns(entry_finish(Begin(writer), ew, desc))
    /\ ew' = None
    /\ desc' = None
    /\ UNCHANGED <<offset0, file_names, consumed, builder, dw, budget>>
    /\ UNCHANGED <<xvars, rvars>>

\* the entry writer goes out of scope without finish
EntryDrop ==
    /\ ew.some /\ ~dw.some
    /\ ew' = None
    /\ desc' = None
    /\ hist' = [hist EXCEPT ![ew.h].state = "dropped"]
    /\ call' = Returned("entry_drop", "Ok")
    /\ UNCHANGED <<offset0, writer, files, file_names, consumed, builder, dw, budget>>
    /\ UNCHANGED <<xvars, rvars>>

ArchiveFinishReturns(w) ==
    /\ writer' = w
    /\ call' = Returned("finish", IF w.err THEN "Io" ELSE "Ok")

\* ZipArchiveWriter::finish: the archive writer is moved into the call
ArchiveFinish ==
    /\ ~consumed
    /\ ~archive_borrowed
    /\ ArchiveFinishReturns(archive_finish(Begin(writer), files, file_names))
    /\ consumed' = TRUE
    /\ UNCHANGED <<offset0, files, file_names, builder, ew, dw, desc, hist, budget>>
    /\ UNCHANGED <<xvars, rvars>>

Next ==
    \/ \E name \in Names : NewFile(name)
    \/ \E name \in Names : NewDir(name)
    \/ LastModified
    \/ \E f \in UserFields, location \in {Header_LOCAL, Header_CENTRAL} :
          ExtraField(f.id, f.data, location)
    \/ CreateFile
    \/ CreateDir
    \/ \E buf \in Buffers : EntryWrite(buf)
    \/ \E inner \in {"entry", "other"} : NewDataWriter(inner)
    \/ \E buf \in Buffers : DataWrite(buf)
    \/ DataFinish
    \/ EntryFinish
    \/ EntryDrop
    \/ ArchiveFinish

Spec == Init /\ [][Next]_vars

-----------------------------------------------------------------------------
(* Claims about the extra-field container (SpecExtras) *)

\* ExtraFields as an iterator: the (id, data) items it yields over a byte string
RECURSIVE ParseTlvs(_)
ParseTlvs(bytes) ==
    LET nd == next_data(bytes)
    IN  IF nd = <<>> THEN <<>>
        ELSE <<[id |-> le_u16(nd[1], W0), data |-> BDrop(nd[1], WInt(4))]>>
             \o ParseTlvs(nd[2])

\* the fields of a history whose location intersects the filter, as (id, data)
RECURSIVE FieldsFor(_, _)
FieldsFor(added, filter) ==
    IF added = <<>> THEN <<>>
    ELSE (IF intersects(added[1].location, filter)
          THEN <<[id |-> added[1].id, data |-> added[1].data]>> ELSE <<>>)
         \o FieldsFor(Tail(added), filter)

\* the TLV bytes of a list of (id, data)
RECURSIVE TlvsBytes(_)
TlvsBytes(fs) ==
    IF fs = <<>> THEN <<>> ELSE Cat(TlvBytes(fs[1].id, fs[1].data), TlvsBytes(Tail(fs)))

\* is a an order-preserving subsequence of b?
RECURSIVE IsSubseq(_, _)
IsSubseq(a, b) ==
    IF a = <<>> THEN TRUE
    ELSE IF b = <<>> THEN FALSE
    ELSE IF a[1] = b[1] THEN IsSubseq(Tail(a), Tail(b))
    ELSE IsSubseq(a, Tail(b))

XWritten == xout.op = "write_extra_fields"

\* C1: the extras emitted for a header location hold exactly the TLVs whose
\* location intersects it, for fields added with LOCAL, CENTRAL or
\* LOCAL|CENTRAL.
C1_ExtrasFollowLocation ==
    (XWritten /\ \A i \in 1..Len(xadded) : xadded[i].location # HeaderNone)
        => xout.bytes = TlvsBytes(FieldsFor(xadded, xout.filter))

\* C2: no field is dropped or merged and order is kept: the TLVs emitted for
\* a location are, in the order added, fields that were added, and every
\* field added for that location is among them (so an id added k times for a
\* location yields k TLVs).
C2_AppendOnlyInOrder ==
    XWritten =>
        LET emitted == ParseTlvs(xout.bytes)
        IN  /\ ~xout.panic
            /\ TlvsBytes(emitted) = xout.bytes
            /\ IsSubseq(emitted, [i \in 1..Len(xadded) |->
                                     [id |-> xadded[i].id, data |-> xadded[i].data]])
            /\ IsSubseq(FieldsFor(xadded, xout.filter), emitted)

\* C2 witness: one id added twice for the emitted location, two TLVs emitted.
C2_Witness ==
    /\ XWritten
    /\ Len(xadded) = 2
    /\ xadded[1].id = xadded[2].id
    /\ xadded[1].data # xadded[2].data
    /\ intersects(xadded[1].location, xout.filter)
    /\ intersects(xadded[2].location, xout.filter)
    /\ Len(ParseTlvs(xout.bytes)) = 2

\* 4 + len(data) + the running total of location l exceeds 65535
Exceeds(c, data, l) ==
    LET total == IF l = Header_LOCAL THEN c.local_size ELSE c.central_size
    IN  WGe(WAdd(WInt(4 + total), BLen(data)), WInt(65536))

\* C3 as claimed: add_field fails exactly when some location included in
\* `location` would exceed 65535, and a failed call changes nothing.
C3_FailsIffLocationOverflows ==
    xcall.op = "add_field" =>
        /\ (xcall.result = "InvalidInput") <=>
               \E l \in {Header_LOCAL, Header_CENTRAL} :
                   intersects(xcall.location, l) /\ Exceeds(xcall.pre, xcall.data, l)
        /\ xcall.result = "InvalidInput" => xc = xcall.pre

\* C3 amended: add_field fails exactly when some included location would
\* exceed 65535 or 4 + len(data) alone exceeds 65535 (the only way to fail
\* with an empty location mask); a failed call changes nothing.
C3_FailsIffOverflow ==
    xcall.op = "add_field" =>
        /\ (xcall.result = "InvalidInput") <=>
               \/ \E l \in {Header_LOCAL, Header_CENTRAL} :
                      intersects(xcall.location, l) /\ Exceeds(xcall.pre, xcall.data, l)
               \/ WGe(WAdd(WInt(4), BLen(xcall.data)), WInt(65536))
        /\ xcall.result = "InvalidInput" => xc = xcall.pre

\* C3 witness: a location filled to exactly 65535 by an accepted call, and
\* the next call on it rejected.
C3_Witness ==
    /\ xcall.op = "add_field"
    /\ xcall.result = "InvalidInput"
    /\ xcall.pre.local_size = 65535
    /\ includes_local(xcall.location)
    /\ xc = xcall.pre

-----------------------------------------------------------------------------
(* The read side: EOCD locator, central directory iterator and entry       *)
(* resolver, as the specification describes them (locator.rs and           *)
(* archive.rs).  A file is a byte string; offsets are wide numbers.        *)

At(n) == WInt(n)

SigAt(file, pos, sig) == BSlice(file, pos, At(4)) = Lit(sig)

\* the search of step 1 covers the last 65557 bytes: a 22-byte EOCD and
\* the longest comment
MAX_SEARCH == 65557

\* the offset at which run i of a file starts
RunStart(file, i) == BLen(SubSeq(file, 1, i - 1))

\* the offsets that hold the EOCD signature 50 4B 05 06, in ascending
\* order: the four bytes differ, so an occurrence ends one run, fills two
\* runs of one byte and begins a fourth
SigOffsets(file) ==
    LET runs == SelectSeq([i \in 1..Len(file) |-> i],
                          LAMBDA i : /\ i + 3 <= Len(file)
                                     /\ file[i][1] = 80
                                     /\ file[i + 1] = <<75, W1>>
                                     /\ file[i + 2] = <<5, W1>>
                                     /\ file[i + 3][1] = 6)
    IN  [k \in 1..Len(runs) |-> WSub(RunStart(file, runs[k] + 1), W1)]

\* the first offset for the last one
find_first_end_of_central_dir_signature(file) ==
    LET from == IF WGe(BLen(file), At(MAX_SEARCH))
                THEN WSub(BLen(file), At(MAX_SEARCH)) ELSE W0
        found == SelectSeq(SigOffsets(file), LAMBDA c : WGe(c, from))
    IN  IF found = <<>> THEN None ELSE Some(found[1])

\* step 1 of the locator: the last offset among the last MAX_SEARCH bytes
\* that holds the EOCD signature
find_end_of_central_dir_signature(file) ==
    LET from == IF WGe(BLen(file), At(MAX_SEARCH))
                THEN WSub(BLen(file), At(MAX_SEARCH)) ELSE W0
        found == SelectSeq(SigOffsets(file), LAMBDA c : WGe(c, from))
    IN  IF found = <<>> THEN None ELSE Some(found[Len(found)])

\* step 5 of the locator: the ZIP64 locator directly before the EOCD, and
\* the ZIP64 EOCD record it points at
zip64_probe(file, eocd_offset) ==
    IF WLt(eocd_offset, At(20)) THEN None
    ELSE LET loc == WSub(eocd_offset, At(20))
             rec == le_u64(file, WAdd(loc, At(8)))
         IN  IF /\ SigAt(file, loc, END_OF_CENTRAL_DIR_LOCATOR_SIGNATURE)
                /\ WGe(BLen(file), WAdd(rec, At(56)))
                /\ SigAt(file, rec, END_OF_CENTRAL_DIR_SIGNATURE64)
             THEN [some |-> TRUE,
                   entries |-> le_u64(file, WAdd(rec, At(32))),
                   cd_size |-> le_u64(file, WAdd(rec, At(40))),
                   cd_offset |-> le_u64(file, WAdd(rec, At(48))),
                   zip64_eocd_offset |-> rec]
             ELSE None

\* step 6 of the locator as its formula reads: 22 and the comment length
\* are taken off as well
base_offset_less_record(eocd_offset, cd_size, cd_offset, comment_len) ==
    WSub(eocd_offset, WAdd(WAdd(At(22), At(comment_len)), WAdd(cd_size, cd_offset)))

\* step 6 of the locator for an archive that is not ZIP64, as
\* test_zip_with_secret_prelude fixes it: what lies before the central
\* directory beyond its declared offset
base_offset_of(eocd_offset, cd_size, cd_offset, comment_len) ==
    WSub(eocd_offset, WAdd(cd_size, cd_offset))

\* steps 4-6 of the locator on the EOCD found at e
read_eocd(file, e) ==
    LET entries_disk == le_u16(file, WAdd(e, At(8)))
        entries == le_u16(file, WAdd(e, At(10)))
        cd_size == le_u32(file, WAdd(e, At(12)))
        cd_offset == le_u32(file, WAdd(e, At(16)))
        sentinel == entries = 65535 \/ cd_size = U32_MAX \/ cd_offset = U32_MAX
        z == zip64_probe(file, e)
    IN  IF BSlice(file, WAdd(e, At(4)), At(4)) # Lit(<<0, 0, 0, 0>>)
           \/ entries_disk # entries
        THEN [ok |-> FALSE, error |-> "InvalidInput"]
        ELSE IF ~sentinel
        THEN IF WLt(e, WAdd(cd_size, cd_offset))
             THEN [ok |-> FALSE, error |-> "InvalidInput"]
             ELSE [ok |-> TRUE, entries |-> At(entries), cd_size |-> cd_size,
                   cd_offset |-> cd_offset,
                   base_offset |-> base_offset_of(e, cd_size, cd_offset,
                                                  le_u16(file, WAdd(e, At(20))))]
        ELSE IF ~z.some
        THEN [ok |-> FALSE, error |-> "MissingZip64EndOfCentralDirectory"]
        ELSE IF WLt(z.zip64_eocd_offset, WAdd(z.cd_size, z.cd_offset))
        THEN [ok |-> FALSE, error |-> "InvalidInput"]
        ELSE [ok |-> TRUE, entries |-> z.entries, cd_size |-> z.cd_size,
              cd_offset |-> z.cd_offset,
              base_offset |-> WSub(z.zip64_eocd_offset, WAdd(z.cd_size, z.cd_offset))]

\* the failure of the locator, with the candidate offset when one is known
MissingEndOfCentralDirectory(eocd_offset) ==
    [ok |-> FALSE, error |-> "MissingEndOfCentralDirectory", eocd_offset |-> eocd_offset]

\* the locator of spec.md section 4.3 step 2: the declared comment has to
\* reach exactly to the end of the input
locate_at_exact(file, e) ==
    IF WLt(BLen(file), WAdd(e, At(22)))
    THEN MissingEndOfCentralDirectory(Some(e))
    ELSE IF BLen(file) # WAdd(WAdd(e, At(22)), At(le_u16(file, WAdd(e, At(20)))))
    THEN MissingEndOfCentralDirectory(Some(e))
    ELSE read_eocd(file, e) @@
         [eocd_offset |-> Some(e),
          comment |-> BSlice(file, WAdd(e, At(22)), At(le_u16(file, WAdd(e, At(20)))))]

\* steps 2-3 of the locator as the tests of the repository fix them
\* (false_signature_tests.rs, extra_data_zip_tests.rs): only the last
\* signature is a candidate; it fails when its 22-byte record or its
\* declared comment runs past the end, and is the EOCD otherwise, whatever
\* follows the comment
locate_at(file, e) ==
    IF WLt(BLen(file), WAdd(e, At(22)))
    THEN MissingEndOfCentralDirectory(Some(e))
    ELSE IF WLt(BLen(file), WAdd(WAdd(e, At(22)), At(le_u16(file, WAdd(e, At(20))))))
    THEN MissingEndOfCentralDirectory(Some(e))
    ELSE read_eocd(file, e) @@
         [eocd_offset |-> Some(e),
          comment |-> BSlice(file, WAdd(e, At(22)), At(le_u16(file, WAdd(e, At(20)))))]

\* the locator: the archive (read view) of a file, or an error
locate(file) ==
    LET found == find_end_of_central_dir_signature(file)
    IN  IF found.some THEN locate_at(file, found.n)
        ELSE MissingEndOfCentralDirectory(None)

\* step 3 of the iterator: sentinels are replaced from the ZIP64 extra in
\* the order uncompressed, compressed, local header offset
zip64_data(extras) ==
    LET z == SelectSeq(ParseTlvs(extras), LAMBDA f : f.id = ExtraFieldId_ZIP64)
    IN  IF z = <<>> THEN <<>> ELSE z[1].data

promote(e, z) ==
    LET u == e.uncompressed_size = U32_MAX
        c == e.compressed_size = U32_MAX
        o == e.local_header_offset = U32_MAX
        cpos == IF u THEN 8 ELSE 0
        opos == cpos + (IF c THEN 8 ELSE 0)
        need == opos + (IF o THEN 8 ELSE 0)
    IN  IF WLt(BLen(z), At(need)) THEN [e EXCEPT !.ok = FALSE]
        ELSE [e EXCEPT
                !.uncompressed_size = IF u THEN le_u64(z, W0) ELSE @,
                !.compressed_size = IF c THEN le_u64(z, At(cpos)) ELSE @,
                !.local_header_offset = IF o THEN le_u64(z, At(opos)) ELSE @]

\* steps 1-3 of the iterator on the central directory header at pos
read_cdh(file, pos) ==
    LET name_len == le_u16(file, WAdd(pos, At(28)))
        extra_len == le_u16(file, WAdd(pos, At(30)))
        comment_len == le_u16(file, WAdd(pos, At(32)))
        fixed == [ok |-> TRUE,
                  flags |-> le_u16(file, WAdd(pos, At(8))),
                  compression_method |-> le_u16(file, WAdd(pos, At(10))),
                  crc32 |-> le_u32(file, WAdd(pos, At(16))),
                  compressed_size |-> le_u32(file, WAdd(pos, At(20))),
                  uncompressed_size |-> le_u32(file, WAdd(pos, At(24))),
                  local_header_offset |-> le_u32(file, WAdd(pos, At(42))),
                  file_path |-> BSlice(file, WAdd(pos, At(46)), At(name_len)),
                  next |-> WAdd(pos, At(46 + name_len + extra_len + comment_len))]
        extras == BSlice(file, WAdd(pos, At(46 + name_len)), At(extra_len))
    IN  IF \/ fixed.uncompressed_size = U32_MAX
           \/ fixed.compressed_size = U32_MAX
           \/ fixed.local_header_offset = U32_MAX
        THEN promote(fixed, zip64_data(extras))
        ELSE fixed

\* the iterator: the entries of the central directory from pos on, while the
\* declared count is not reached; [ok, entries]
RECURSIVE read_entries(_, _, _, _)
read_entries(file, pos, last, left) ==
    IF left = 0 THEN [ok |-> TRUE, entries |-> <<>>]
    ELSE IF \/ WLt(last, WAdd(pos, At(46)))
            \/ ~SigAt(file, pos, CENTRAL_HEADER_SIGNATURE)
    THEN [ok |-> FALSE, entries |-> <<>>]
    ELSE LET e == read_cdh(file, pos)
             rest == read_entries(file, e.next, last, left - 1)
         IN  [ok |-> e.ok /\ rest.ok, entries |-> <<e>> \o rest.entries]

\* the entries of a located archive (the declared count is below 2^16 in
\* every archive met here)
entries_of(file, archive) ==
    read_entries(file, WAdd(archive.base_offset, archive.cd_offset),
                 WAdd(WAdd(archive.base_offset, archive.cd_offset), archive.cd_size),
                 archive.entries[2])

\* the entry resolver: the compressed data range of an entry, read out
get_entry(file, archive, e) ==
    LET pos == WAdd(archive.base_offset, e.local_header_offset)
        name_len == le_u16(file, WAdd(pos, At(26)))
        extra_len == le_u16(file, WAdd(pos, At(28)))
        start == WAdd(pos, At(30 + name_len + extra_len))
    IN  IF \/ WLt(BLen(file), WAdd(pos, At(30)))
           \/ ~SigAt(file, pos, LOCAL_HEADER_SIGNATURE)
           \/ WLt(BLen(file), WAdd(start, e.compressed_size))
        THEN [ok |-> FALSE, data |-> <<>>]
        ELSE [ok |-> TRUE, data |-> BSlice(file, start, e.compressed_size)]

-----------------------------------------------------------------------------
(* Claims about the archive writer (Spec) *)

\* What the stream itself says, independently of the writer's counters: the
\* sink's log gives the bytes accepted before each record, the history gives
\* what each entry was fed.

Out == writer.out

RECURSIVE BytesBefore(_, _)
BytesBefore(out, i) ==
    IF i <= 1 THEN W0
    ELSE LET n == WAdd(BytesBefore(out, i - 1), BLen(out[i - 1].bytes))
         IN  IF n[1] >= 0 THEN n ELSE W0

\* the stream offset at which record i starts: the with_offset argument
\* plus the bytes the sink accepted before it
StreamOffset(i) == WAdd(offset0, BytesBefore(Out, i))

Tagged(tag) == {i \in 1..Len(Out) : Out[i].tag = tag}

Min(S) == CHOOSE i \in S : \A j \in S : i <= j

\* the bytes of s at [from, from + n)
Field(s, from, n) == BSlice(s, WInt(from), WInt(n))

\* finish returned Ok: an archive was produced
Produced == consumed /\ call.op = "finish" /\ call.result = "Ok"

\* the entries of the archive: the create calls whose entry was recorded
Recorded == {h \in 1..Len(hist) : hist[h].state = "finished"}

\* an entry's true local header offset, compressed size (the "data" records
\* between its local header and the next header) and uncompressed size
TrueOffset(h) == StreamOffset(hist[h].lfh)

EntryEnd(h) ==
    LET later == {i \in (hist[h].lfh + 1)..Len(Out) :
                    Out[i].tag \in {"lfh", "dd", "cdh", "z64", "eocd"}}
    IN  IF later = {} THEN Len(Out) + 1 ELSE Min(later)

RECURSIVE DataBytes(_, _)
DataBytes(i, j) ==
    IF i >= j THEN W0
    ELSE LET n == WAdd(IF Out[i].tag = "data" THEN BLen(Out[i].bytes) ELSE W0,
                       DataBytes(i + 1, j))
         IN  IF n[1] >= 0 THEN n ELSE W0

TrueCompressed(h) == DataBytes(hist[h].lfh, EntryEnd(h))

TrueUncompressed(h) == BLen(hist[h].fed)

\* 2^32
TwoTo32 == <<65536, 0>>

\* where the central directory starts and ends in the log of a produced archive
CdStart == Min(Tagged("cdh") \cup Tagged("z64") \cup Tagged("eocd"))

CdEnd == Min(Tagged("z64") \cup Tagged("eocd"))

TrueCdOffset == StreamOffset(CdStart)

TrueCdSize == WSub(StreamOffset(CdEnd), StreamOffset(CdStart))

C4_Triggered ==
    \/ Cardinality(Recorded) >= 65535
    \/ WGe(TrueCdOffset, TwoTo32)
    \/ \E h \in Recorded :
          \/ WGe(TrueCompressed(h), TwoTo32)
          \/ WGe(TrueUncompressed(h), TwoTo32)
          \/ WGe(TrueOffset(h), TwoTo32)

\* the record at log position i is a ZIP64 EOCD record carrying the true
\* count, size and offset, directly followed by a locator pointing at it and
\* then by the EOCD, which ends the stream
C4_Zip64RecordsAt(i) ==
    /\ i + 2 = Len(Out)
    /\ Out[i].tag = "z64" /\ Out[i + 1].tag = "z64loc" /\ Out[i + 2].tag = "eocd"
    /\ BLen(Out[i].bytes) = WInt(56)
    /\ Field(Out[i].bytes, 0, 4) = Lit(END_OF_CENTRAL_DIR_SIGNATURE64)
    /\ Field(Out[i].bytes, 24, 8) = Lit(U64Le(WInt(Cardinality(Recorded))))
    /\ Field(Out[i].bytes, 32, 8) = Lit(U64Le(WInt(Cardinality(Recorded))))
    /\ Field(Out[i].bytes, 40, 8) = Lit(U64Le(TrueCdSize))
    /\ Field(Out[i].bytes, 48, 8) = Lit(U64Le(TrueCdOffset))
    /\ BLen(Out[i + 1].bytes) = WInt(20)
    /\ Field(Out[i + 1].bytes, 0, 4) = Lit(END_OF_CENTRAL_DIR_LOCATOR_SIGNATURE)
    /\ Field(Out[i + 1].bytes, 8, 8) = Lit(U64Le(StreamOffset(i)))
    /\ Field(Out[i + 2].bytes, 0, 4) = Lit(END_OF_CENTRAL_DIR_SIGNAUTRE_BYTES)

\* the entry-count trigger, on the decision and the records themselves (an
\* archive of 65535 entries is beyond the runs explored)
C4_EntryCountTrigger ==
    \A n \in {65535, 65536} :
       /\ archive_needs_zip64(n, W0, <<>>)
       /\ Field(zip64_eocd_bytes(n, W0, W0), 24, 8) = Lit(U64Le(WInt(n)))
       /\ Field(zip64_eocd_bytes(n, W0, W0), 32, 8) = Lit(U64Le(WInt(n)))

RecordedSeq ==
    SelectSeq([h \in 1..Len(hist) |-> h], LAMBDA h : hist[h].state = "finished")

CdhSeq == SelectSeq([i \in 1..Len(Out) |-> i], LAMBDA i : Out[i].tag = "cdh")

Sentinel32 == Lit(<<255, 255, 255, 255>>)

Overflows(v) == WGe(v, U32_MAX)

\* the ZIP64 extra payload an entry's true values call for
TrueZip64Data(h) ==
    Lit((IF Overflows(TrueUncompressed(h)) THEN U64Le(TrueUncompressed(h)) ELSE <<>>)
        \o (IF Overflows(TrueCompressed(h)) THEN U64Le(TrueCompressed(h)) ELSE <<>>)
        \o (IF Overflows(TrueOffset(h)) THEN U64Le(TrueOffset(h)) ELSE <<>>))

Zip64Tlvs(extras) ==
    SelectSeq(ParseTlvs(extras), LAMBDA f : f.id = ExtraFieldId_ZIP64)

C5_HeaderAgrees(h, cdh, extras) ==
    /\ (Field(cdh, 24, 4) = Sentinel32) <=> Overflows(TrueUncompressed(h))
    /\ (Field(cdh, 20, 4) = Sentinel32) <=> Overflows(TrueCompressed(h))
    /\ (Field(cdh, 42, 4) = Sentinel32) <=> Overflows(TrueOffset(h))
    /\ IF \/ Overflows(TrueUncompressed(h))
          \/ Overflows(TrueCompressed(h))
          \/ Overflows(TrueOffset(h))
       THEN /\ Len(Zip64Tlvs(extras)) = 1
            /\ Zip64Tlvs(extras)[1].data = TrueZip64Data(h)
       ELSE Zip64Tlvs(extras) = <<>>

\* C5: in a produced archive, for every central directory header (of a file
\* or of a directory) each of uncompressed size, compressed size and local
\* header offset holds 0xFFFFFFFF exactly when its true value is >=
\* 0xFFFFFFFF; when one of them does, the header's extras hold one ZIP64
\* extra with exactly the overflowed values as 64-bit integers in the order
\* uncompressed, compressed, local header offset; otherwise they hold none.
C5_SentinelsMatchZip64Extra ==
    Produced =>
        \A k \in 1..Len(RecordedSeq) :
            C5_HeaderAgrees(RecordedSeq[k], Out[CdhSeq[k]].bytes,
                            Out[CdhSeq[k] + 2].bytes)

\* the same for the entries new_file created only
C5_FilesOnly ==
    Produced =>
        \A k \in 1..Len(RecordedSeq) :
            hist[RecordedSeq[k]].kind = "file" =>
                C5_HeaderAgrees(RecordedSeq[k], Out[CdhSeq[k]].bytes,
                                Out[CdhSeq[k] + 2].bytes)

\* the entries whose local header went out whole
WithLocalHeader == {h \in 1..Len(hist) : hist[h].state \in {"open", "finished", "dropped"}}

\* C6: the local file header create emits carries version_needed 45 when
\* the entry requires ZIP64 (its local header offset is >= 0xFFFFFFFF at
\* creation), and 20 otherwise.
C6_LocalVersionNeeded ==
    \A h \in WithLocalHeader :
        Field(Out[hist[h].lfh].bytes, 4, 2)
            = Lit(U16Le(IF Overflows(TrueOffset(h)) THEN 45 ELSE 20))

\* C7: the data descriptor ZipEntryWriter::finish emits is signature, CRC,
\* compressed size, uncompressed size, with 8-byte sizes if either size is
\* >= 0xFFFFFFFF or the entry's local header offset is >= 0xFFFFFFFF, and
\* with 4-byte sizes otherwise.
C7_DataDescriptorWidth ==
    \A h \in Recorded :
        hist[h].kind = "file" =>
            Out[hist[h].dd].bytes =
                Cat(Lit(DATA_DESCRIPTOR_SIGNATURE \o U32Le(crc32(hist[h].fed))),
                    IF \/ Overflows(TrueCompressed(h))
                       \/ Overflows(TrueUncompressed(h))
                       \/ Overflows(TrueOffset(h))
                    THEN Lit(U64Le(TrueCompressed(h)) \o U64Le(TrueUncompressed(h)))
                    ELSE Lit(U32Le(TrueCompressed(h)) \o U32Le(TrueUncompressed(h))))

\* the same with the width decided by the two sizes alone
C7_WidthBySizes ==
    \A h \in Recorded :
        hist[h].kind = "file" =>
            Out[hist[h].dd].bytes =
                Cat(Lit(DATA_DESCRIPTOR_SIGNATURE \o U32Le(crc32(hist[h].fed))),
                    IF \/ Overflows(TrueCompressed(h))
                       \/ Overflows(TrueUncompressed(h))
                    THEN Lit(U64Le(TrueCompressed(h)) \o U64Le(TrueUncompressed(h)))
                    ELSE Lit(U32Le(TrueCompressed(h)) \o U32Le(TrueUncompressed(h))))

\* every offset the writer recorded, in its state and in the stream, is the
\* with_offset argument plus the bytes the sink accepted before the record:
\* the local header offsets (of the recorded entries, of the open entry, and
\* in the central directory headers up to the 32-bit sentinel), the central
\* directory offset (EOCD, ZIP64 EOCD record) and the ZIP64 locator's offset
C8_OffsetsCountFromN ==
    /\ Len(files) = Len(RecordedSeq)
    /\ \A k \in 1..Len(files) :
          files[k].local_header_offset = TrueOffset(RecordedSeq[k])
    /\ ew.some => ew.local_header_offset = TrueOffset(ew.h)
    /\ Produced =>
          /\ \A k \in 1..Len(RecordedSeq) :
                Field(Out[CdhSeq[k]].bytes, 42, 4)
                    = Lit(U32Le(AsU32(WMin(TrueOffset(RecordedSeq[k]), U32_MAX))))
          /\ Field(Out[Len(Out)].bytes, 16, 4)
                = Lit(U32Le(AsU32(WMin(TrueCdOffset, U32_MAX))))
          /\ \A i \in Tagged("z64") :
                /\ Field(Out[i].bytes, 48, 8) = Lit(U64Le(TrueCdOffset))
                /\ Field(Out[i + 1].bytes, 8, 8) = Lit(U64Le(StreamOffset(i)))

\* C8 as stated: for a writer built with with_offset(n), every recorded
\* offset is n plus the bytes the sink accepted before the record, and the
\* smallest local header offset of a non-empty archive is n.
C8_OffsetsAndSmallestIsN ==
    /\ C8_OffsetsCountFromN
    /\ (Produced /\ files # <<>>) =>
          \E k \in 1..Len(files) : files[k].local_header_offset = offset0

\* C8 amended: the smallest local header offset of a non-empty archive is n
\* when no entry before the first recorded one put bytes into the stream
\* (none was dropped unfinished or failed after its local header was
\* written); it is never below n.
C8_OffsetsAndSmallestWhenFirst ==
    /\ C8_OffsetsCountFromN
    /\ \A k \in 1..Len(files) : WGe(files[k].local_header_offset, offset0)
    /\ (files # <<>> /\ \A h \in 1..(RecordedSeq[1] - 1) : hist[h].state = "rejected")
          => files[1].local_header_offset = offset0

\* a produced ZIP64 archive of two entries behind a prelude
C8_Witness ==
    /\ Produced /\ offset0 # W0 /\ Len(files) = 2
    /\ Tagged("z64") # {}
    /\ files[1].local_header_offset = offset0
    /\ files[2].local_header_offset # offset0

\* the file a produced archive lies in: the prelude with_offset declared
\* (spaces here), then what the sink accepted
RECURSIVE Concat(_)
Concat(out) ==
    IF out = <<>> THEN <<>>
    ELSE LET rest == Concat(Tail(out))
         IN  IF Len(rest) >= 0 THEN Cat(out[1].bytes, rest) ELSE rest

Container == Cat(Rep(32, offset0), Concat(Out))

\* the entries were (name, bytes) pairs written with method Store and
\* finished: every create call was new_file(name).create() with no option
\* set, every entry was finished, and what each entry writer received is
\* what the data writer was fed
C9_StoreEntriesOnly ==
    /\ Produced
    /\ \A h \in 1..Len(hist) :
          /\ hist[h].kind = "file" /\ hist[h].state = "finished"
          /\ hist[h].added = <<>> /\ ~hist[h].modification_time.some
          /\ Concat(SelectSeq(SubSeq(Out, hist[h].lfh, EntryEnd(h) - 1),
                              LAMBDA r : r.tag = "data")) = hist[h].fed

C9_ReadsBack(file, archive, names) ==
    /\ archive.ok
    /\ archive.entries = At(Len(hist))
    /\ LET r == entries_of(file, archive)
       IN  /\ r.ok
           /\ Len(r.entries) = Len(hist)
           /\ \A k \in 1..Len(hist) :
                 /\ r.entries[k].file_path = names[k]
                 /\ get_entry(file, archive, r.entries[k])
                        = [ok |-> TRUE, data |-> hist[k].fed]
                 /\ r.entries[k].crc32 = crc32(hist[k].fed)
                 /\ r.entries[k].compressed_size = BLen(hist[k].fed)
                 /\ r.entries[k].uncompressed_size = BLen(hist[k].fed)

\* C9 as stated: for (name, bytes) entries written in order with method
\* Store and then finished, locating and iterating the produced archive
\* yields as many entries, with the names given, the same bytes, in the same
\* order, each with the CRC-32 and the length of its bytes recorded.
C9_RoundTripNamesAsGiven ==
    C9_StoreEntriesOnly =>
        C9_ReadsBack(Container, locate(Container),
                     [k \in 1..Len(hist) |-> hist[k].given])

\* C9 amended: the names read back are the names as new_file stored them,
\* that is without trailing '/'.
C9_RoundTripNamesAsStored ==
    C9_StoreEntriesOnly =>
        C9_ReadsBack(Container, locate(Container),
                     [k \in 1..Len(hist) |-> trim_end_matches_slash(hist[k].given)])

\* two entries read back, one of them of 2^32 - 1 bytes, behind a prelude
C9_Witness ==
    /\ C9_StoreEntriesOnly /\ Len(hist) = 2 /\ offset0 # W0
    /\ hist[1].fed = Big /\ hist[2].fed = Lit(<<72, 105>>)
    /\ hist[1].given # hist[2].given
    /\ C9_ReadsBack(Container, locate(Container),
                    [k \in 1..Len(hist) |-> trim_end_matches_slash(hist[k].given)])

\* the entries that are open: created, and neither finished nor dropped
OpenEntries == {h \in 1..Len(hist) : hist[h].state = "open"}

\* a step that begins an entry (new_file, new_dir or create) or finishes the
\* archive
StartsEntryOrFinishes ==
    \/ builder'.some /\ ~builder.some
    \/ Len(hist') > Len(hist)
    \/ consumed' /\ ~consumed

\* a step that writes to an entry or finishes one: it puts entry data or a
\* data descriptor into the stream, or moves an entry out of "open"
WritesOrFinishesEntry ==
    \/ /\ Len(writer'.out) > Len(writer.out)
       /\ writer'.out[Len(writer'.out)].tag \in {"data", "dd"}
    \/ \E h \in 1..Len(hist) : hist[h].state = "open" /\ hist'[h].state # "open"

C10_Step ==
    /\ OpenEntries # {} => ~StartsEntryOrFinishes
    /\ consumed => UNCHANGED <<writer, files, file_names, builder, ew, dw, desc, hist>>
    /\ WritesOrFinishesEntry => ew.some /\ hist[ew.h].state = "open" /\ ~consumed

\* C10: at most one entry of an archive writer is open at any time; while
\* an entry writer is open no entry is created and the archive is not
\* finished; after the archive's finish there is no entry or write
\* operation; and an entry writer is neither written to nor finished again
\* after its finish.
C10_WriterLifecycle ==
    /\ [](Cardinality(OpenEntries) <= 1)
    /\ [](ew.some <=> OpenEntries # {})
    /\ [](ew.some => OpenEntries = {ew.h})
    /\ [][C10_Step]_vars

\* a second entry is open, after a first one was written to and finished
C10_Witness ==
    /\ ew.some /\ ew.h = 2 /\ OpenEntries = {2}
    /\ hist[1].kind = "file" /\ hist[1].state = "finished"
    /\ TrueCompressed(1) # W0
    /\ WGe(ew.compressed_bytes, W1)

-----------------------------------------------------------------------------
(* SpecOptions: entries created with up to OptionCalls builder options,
   written to a sink that accepts everything, with no data *)

\* the number of builder option calls (last_modified, extra_field) in one run
OptionCalls == 2

\* the extra fields a builder is given here: id 0x6666 with the five bytes
\* "abcde", as long as the payload of an Extended Timestamp field
StampFields == {[id |-> 26214, data |-> Lit(<<97, 98, 99, 100, 101>>)]}

\* ZipArchiveWriter::new(sink): the run may make OptionCalls option calls
\* and no write call
InitOptions ==
    /\ RIdle
    /\ xc = NewContainer
    /\ xadded = <<>>
    /\ xcall = NoCall
    /\ xout = NoCall
    /\ offset0 = W0
    /\ writer = CountWriter_new(None, W0)
    /\ files = <<>>
    /\ file_names = <<>>
    /\ consumed = FALSE
    /\ builder = None
    /\ ew = None
    /\ dw = None
    /\ desc = None
    /\ call = NoCall
    /\ hist = <<>>
    /\ budget = [writes |-> MaxWrites, options |-> MaxOptions - OptionCalls]

NextOptions ==
    \/ \E name \in Names : NewFile(name)
    \/ \E name \in Names : NewDir(name)
    \/ LastModified
    \/ \E f \in StampFields, location \in {Header_LOCAL, Header_CENTRAL} :
          ExtraField(f.id, f.data, location)
    \/ CreateFile
    \/ CreateDir
    \/ NewDataWriter("entry")
    \/ DataFinish
    \/ EntryFinish
    \/ ArchiveFinish

SpecOptions == InitOptions /\ [][NextOptions]_vars

\* the extras written after an entry's local header and name
LocalExtras(h) ==
    IF hist[h].lfh + 2 <= Len(Out) /\ Out[hist[h].lfh + 2].tag = "lextra"
    THEN Out[hist[h].lfh + 2].bytes ELSE <<>>

\* the Extended Timestamp TLVs among the extras
Stamps(extras) ==
    SelectSeq(ParseTlvs(extras), LAMBDA f : f.id = ExtraFieldId_EXTENDED_TIMESTAMP)

\* the builder itself was given no Extended Timestamp field
NoUserStamp(h) ==
    \A i \in 1..Len(hist[h].added) : hist[h].added[i].id # ExtraFieldId_EXTENDED_TIMESTAMP

C11_Local(h) ==
    IF hist[h].modification_time.some
    THEN Stamps(LocalExtras(h)) = <<>>
    ELSE /\ Stamps(LocalExtras(h)) = <<>>
         /\ Field(Out[hist[h].lfh].bytes, 10, 4) = Lit(<<0, 0, 0, 0>>)

C11_Central(h, cdh, extras) ==
    IF hist[h].modification_time.some
    THEN Stamps(extras) =
            <<[id |-> 21589,
               data |-> Lit(<<1>> \o U32Le(hist[h].modification_time.unix))]>>
    ELSE /\ Stamps(extras) = <<>>
         /\ Field(cdh, 12, 4) = Lit(<<0, 0, 0, 0>>)

C11_NoUserFields ==
    /\ \A h \in WithLocalHeader : hist[h].added = <<>> => C11_Local(h)
    /\ Produced =>
          \A k \in 1..Len(RecordedSeq) :
             hist[RecordedSeq[k]].added = <<>> =>
                C11_Central(RecordedSeq[k], Out[CdhSeq[k]].bytes,
                            Out[CdhSeq[k] + 2].bytes)

-----------------------------------------------------------------------------
(* SpecReadAt: reader_at.rs, ReaderAtExt::read_at_least_at on a ReaderAt
   whose read_at may return fewer bytes than asked *)

\* the minimum buffer length the reader API publishes
RECOMMENDED_BUFFER_SIZE == 8192

\* the number of bytes the underlying reader holds
SrcLen == 60

\* buffer lengths handed in, and the sizes the reader API asks for: nothing,
\* an EOCD (22), a local header (30), a whole recommended buffer
BufLens == {0, 21, 22, 256, RECOMMENDED_BUFFER_SIZE - 1, RECOMMENDED_BUFFER_SIZE}

Sizes == {0, 22, 30, RECOMMENDED_BUFFER_SIZE}

ReadOffsets == {0, 40, 70}

\* no call made yet
InitReadAt == InitX

\* buffer.len() < size with the published minimum for the size
buffer_too_small_recommended(buflen, size) == buflen < RECOMMENDED_BUFFER_SIZE

\* buffer.len() < size, the test read_at_least_at starts with
buffer_too_small(buflen, size) == buflen < size

\* what is left of the underlying reader at an offset
Available(offset) == IF offset >= SrcLen THEN 0 ELSE SrcLen - offset

\* what one read_at(&mut buffer[pos..], offset + pos) may return: 0 at the
\* end of the data, else one byte, or all that fits
read_at_returns(r) ==
    LET most == IF r.buflen - r.pos < Available(r.offset + r.pos)
                THEN r.buflen - r.pos ELSE Available(r.offset + r.pos)
    IN  IF most = 0 THEN {0} ELSE {1, most}

\* the return of read_at_least_at once try_read_at_least_at returned read
read_at_least_at_returns(r, read) ==
    [r EXCEPT !.pc = "done",
              !.result = IF read < r.size THEN "Eof" ELSE "Ok",
              !.read = read]

\* read_at_least_at(buffer, size, offset) up to its first read_at
ReadAtLeastAt(buflen, size, offset) ==
    /\ ra.pc \in {"idle", "done"}
    /\ LET r == [pc |-> "loop", buflen |-> buflen, asked |-> size,
                 size |-> IF size < buflen THEN size ELSE buflen,
                 offset |-> offset, pos |-> 0, reads |-> 0,
                 result |-> "none", read |-> 0]
       IN  ra' = IF buffer_too_small(buflen, size)
                 THEN [r EXCEPT !.pc = "done", !.result = "BufferTooSmall"]
                 ELSE IF r.pos < r.size THEN r
                 ELSE read_at_least_at_returns(r, r.pos)
    /\ UNCHANGED <<xvars, wvars, locator, mx, rr, ef>>

\* one pass of the loop of try_read_at_least_at: a read_at, and the return
\* when it ends the loop
ReadAtLoop ==
    /\ ra.pc = "loop"
    /\ \E n \in read_at_returns(ra) :
          LET r == [ra EXCEPT !.reads = @ + 1, !.pos = @ + n]
          IN  ra' = IF n = 0 \/ r.pos >= r.size
                    THEN read_at_least_at_returns(r, r.pos)
                    ELSE r
    /\ UNCHANGED <<xvars, wvars, locator, mx, rr, ef>>

NextReadAt ==
    \/ \E buflen \in BufLens, size \in Sizes, offset \in ReadOffsets :
          ReadAtLeastAt(buflen, size, offset)
    \/ ReadAtLoop

SpecReadAt == InitReadAt /\ [][NextReadAt]_vars

-----------------------------------------------------------------------------
(* SpecLocate: the locator run on files made of preludes, archives the
   writer produced, and trailing bytes; then run again on a prefix *)

\* ZipEntryOptions of a builder that was given nothing
DefaultOptions ==
    [compression_method |-> CompressionMethod_Store, modification_time |-> None,
     unix_permissions |-> None, extra_fields |-> NewContainer]

\* new_file(name).create(), the data written through a ZipDataWriter, both
\* finished: st is [w, fs, names], the fields of the archive writer
entry_written(st, r, data) ==
    LET f == entry_finish(write_all(r.writer, "data", data),
                          [r.ew EXCEPT !.compressed_bytes = BLen(data)],
                          [crc |-> crc32(data), compressed_size |-> W0,
                           uncompressed_size |-> BLen(data)])
    IN  [w |-> f.writer, fs |-> Append(st.fs, f.file_header), names |-> r.file_names]

RECURSIVE entries_written(_, _)
entries_written(st, entries) ==
    IF entries = <<>> THEN st
    ELSE LET next == entry_written(st,
                        new_file_with_options(st.w, st.names, entries[1].name,
                                              DefaultOptions),
                        entries[1].data)
         IN  IF Len(next.fs) >= 0 THEN entries_written(next, Tail(entries)) ELSE next

archive_written(st) == Concat(archive_finish(st.w, st.fs, st.names).out)

\* the bytes of the archive ZipArchiveWriter::new(sink) produces for a list
\* of (name, data), with a comment put into its EOCD afterwards
ArchiveOf(entries, comment) ==
    LET bytes == archive_written(
                    entries_written([w |-> CountWriter_new(None, W0), fs |-> <<>>,
                                     names |-> <<>>], entries))
    IN  [bytes |-> Cat(Cat(BTake(bytes, WSub(BLen(bytes), At(2))),
                           Lit(U16Le(BLen(comment)[2]))), comment),
         entries |-> entries, comment |-> comment]

NoArchive == [bytes |-> <<>>, entries |-> <<>>, comment |-> <<>>]

EntryA == [name |-> Lit(<<97>>), data |-> Lit(<<72, 105>>)]

EntryB == [name |-> Lit(<<98>>), data |-> Lit(<<79, 75, 33>>)]

\* "zip comment"
Comment == Lit(<<122, 105, 112, 32, 99, 111, 109, 109, 101, 110, 116>>)

FirstArchives ==
    { ArchiveOf(es, c) : es \in {<<>>, <<EntryA>>, <<EntryA, EntryB>>},
                         c \in {<<>>, Comment} }

SecondArchives == {NoArchive, ArchiveOf(<<EntryB>>, <<>>), ArchiveOf(<<EntryB, EntryA>>, Comment)}

\* "trailing: "
Text == Lit(<<116, 114, 97, 105, 108, 105, 110, 103, 58, 32>>)

Sig == Lit(END_OF_CENTRAL_DIR_SIGNAUTRE_BYTES)

\* the bytes in front of the first archive: none, text, 1000 zero bytes,
\* an EOCD signature with a readable all-zero record behind it, and the
\* same more than MAX_SEARCH bytes away from the end of any file made here
Preludes ==
    { <<>>, Text, Rep(0, At(1000)), Cat(Sig, Rep(0, At(18))),
      Cat(Sig, Rep(0, At(70000))) }

\* the bytes behind the first archive: none, text, text and a false EOCD
\* signature with 8 bytes or with 18 zero bytes behind it, and the latter
\* with no text in between
Middles ==
    { <<>>, Text,
      Cat(Cat(Text, Sig), Lit(<<32, 111, 104, 32, 109, 121, 33, 10>>)),
      Cat(Cat(Text, Sig), Rep(0, At(18))),
      Cat(Sig, Rep(0, At(18))) }

\* the files: P1, A1, P2, A2, where without a second archive P2 is trailing
\* data
LocateInputs ==
    { [p1 |-> p1, a1 |-> a1, p2 |-> p2, a2 |-> a2] :
         p1 \in Preludes, a1 \in FirstArchives, p2 \in Middles, a2 \in SecondArchives }

FileOf(in) == Cat(Cat(Cat(in.p1, in.a1.bytes), in.p2), in.a2.bytes)

\* the offsets an archive and its entries report: shifted by base_offset
\* (extra_data_zip_tests.rs reads the prelude's length off them)
local_header_offset_recorded(archive, e) == e.local_header_offset

local_header_offset(archive, e) == WAdd(archive.base_offset, e.local_header_offset)

directory_offset(archive) == WAdd(archive.base_offset, archive.cd_offset)

end_offset(archive) == WAdd(WAdd(archive.eocd_offset.n, At(22)), BLen(archive.comment))

\* .map(local_header_offset).min().unwrap_or(directory_offset()) over the
\* entries es of an archive
zip_data_start_offset(archive, es) ==
    IF es = <<>> THEN directory_offset(archive)
    ELSE local_header_offset(archive,
            es[CHOOSE i \in 1..Len(es) :
                  \A j \in 1..Len(es) :
                     WGe(local_header_offset(archive, es[j]),
                         local_header_offset(archive, es[i]))])

\* find_zip_data_start_offset with the directory offset for the smallest
\* local header offset
find_zip_data_start_offset_directory(file, archive) == directory_offset(archive)

\* find_zip_data_start_offset_slice / _reader of the tests: the smallest
\* local header offset, or the directory offset of an archive without
\* entries
find_zip_data_start_offset(file, archive) ==
    zip_data_start_offset(archive, entries_of(file, archive).entries)

\* the file the locator sees when it is bounded to end_offset
Bounded(in, bound) == BTake(FileOf(in), bound)

Located(in, bound, run, how, first, result) ==
    [pc |-> "located", in |-> in, bound |-> bound, run |-> run, how |-> how,
     first |-> first, result |-> result]

\* ZipLocator::locate_in_slice(file) / locate_in_reader(file, buf, len)
Locate(in) ==
    /\ locator.pc = "idle"
    /\ locator' = Located(in, BLen(FileOf(in)), 1, "whole", None,
                          locate(FileOf(in)))
    /\ UNCHANGED <<xvars, wvars, ra, mx, rr, ef>>

LocateBounded(how, bound) ==
    locator' = Located(locator.in, bound, locator.run + 1, how,
                       IF locator.run = 1 THEN locator.result ELSE locator.first,
                       locate(Bounded(locator.in, bound)))

\* locate_in_reader(file, buf, o) or (.., o - 1) for the offset o that the
\* last run reported, in its error or as its archive's eocd_offset
LocateAgain(back) ==
    /\ locator.pc = "located"
    /\ locator.result.eocd_offset.some
    /\ LocateBounded(IF back = 0 THEN "at" ELSE "before",
                     IF WGe(locator.result.eocd_offset.n, At(back))
                     THEN WSub(locator.result.eocd_offset.n, At(back)) ELSE W0)
    /\ UNCHANGED <<xvars, wvars, ra, mx, rr, ef>>

\* locate_in_reader(file, buf, find_zip_data_start_offset(archive)) for the
\* archive the last run returned
LocateBeforeArchive ==
    /\ locator.pc = "located"
    /\ locator.result.ok
    /\ entries_of(Bounded(locator.in, locator.bound), locator.result).ok
    /\ LocateBounded("start",
                     find_zip_data_start_offset(Bounded(locator.in, locator.bound),
                                                locator.result))
    /\ UNCHANGED <<xvars, wvars, ra, mx, rr, ef>>

NextLocate ==
    \/ \E in \in LocateInputs : Locate(in)
    \/ \E back \in {0, 1} : LocateAgain(back)
    \/ LocateBeforeArchive

\* no file located yet
InitLocate == InitX

SpecLocate == InitLocate /\ [][NextLocate]_vars

-----------------------------------------------------------------------------
(* Claims about the locator (SpecLocate) *)

\* the file of the last run, and what the run returned
Seen == Bounded(locator.in, locator.bound)

Result == locator.result

\* the candidates of a file: the offsets among its last min(65557, size)
\* bytes that hold the EOCD signature, in ascending order
Candidates(file) ==
    SelectSeq(SigOffsets(file),
              LAMBDA c : WGe(WAdd(c, At(MAX_SEARCH)), BLen(file)))

CommentLenAt(file, c) == le_u16(file, WAdd(c, At(20)))

\* the candidates whose record is readable and whose declared comment
\* reaches exactly to the end of the file
ExactCandidates(file) ==
    SelectSeq(Candidates(file),
              LAMBDA c : /\ WGe(BLen(file), WAdd(c, At(22)))
                         /\ WAdd(WAdd(c, At(22)), At(CommentLenAt(file, c))) = BLen(file))

Last(q) == q[Len(q)]

\* the locator took the candidate c for the EOCD: what it returns is about
\* c, and is not the failure to find an EOCD
Accepted_(result, c) ==
    /\ result.eocd_offset = Some(c)
    /\ ~result.ok => result.error # "MissingEndOfCentralDirectory"

A1End(in) == WAdd(BLen(in.p1), BLen(in.a1.bytes))

\* the first archive is followed by trailing bytes that hold a false EOCD
\* signature, and by no second archive
TrailingSignature(in) == in.a2 = NoArchive /\ SigOffsets(in.p2) # <<>>

\* where that false signature lies in the file
FalseSignature(in) == WAdd(A1End(in), SigOffsets(in.p2)[1])

\* the run returned the first archive of the file
ReturnsA1(in, result) ==
    /\ result.ok
    /\ result.eocd_offset = Some(WSub(A1End(in), WAdd(At(22), BLen(in.a1.comment))))
    /\ result.comment = in.a1.comment
    /\ result.entries = At(Len(in.a1.entries))

\* the run on the whole file reported the false signature, in its error or
\* as the eocd_offset of a bogus archive, and the locator was run again on
\* the prefix ending there ("at") or one byte earlier ("before")
Recovering ==
    /\ locator.pc = "located" /\ locator.run = 2
    /\ locator.how \in {"at", "before"}
    /\ TrailingSignature(locator.in)
    /\ locator.first.eocd_offset = Some(FalseSignature(locator.in))

Concatenated(in) == in.a2 # NoArchive

\* the run returned the second archive of the file
ReturnsA2(in, result) ==
    /\ result.ok
    /\ result.eocd_offset =
          Some(WSub(BLen(FileOf(in)), WAdd(At(22), BLen(in.a2.comment))))
    /\ result.comment = in.a2.comment
    /\ result.entries = At(Len(in.a2.entries))

\* the run on the whole file returned the second archive and the locator
\* was run again on the prefix ending at that archive's smallest local
\* header offset ("start") or at its EOCD ("at")
BeforeSecond ==
    /\ locator.pc = "located" /\ locator.run = 2
    /\ locator.how \in {"start", "at"}
    /\ Concatenated(locator.in)
    /\ ReturnsA2(locator.in, locator.first)

\* the bytes between the end of the archive the run returned and the first
\* local header of the archive the run before returned
second_prefix ==
    LET second_zip_start == find_zip_data_start_offset(FileOf(locator.in),
                                                       locator.first)
    IN  IF Result.ok /\ WGe(second_zip_start, end_offset(Result))
        THEN Some(BSlice(FileOf(locator.in), end_offset(Result),
                         WSub(second_zip_start, end_offset(Result))))
        ELSE None

PreludeOnly(in) == in.p2 = <<>> /\ in.a2 = NoArchive

\* the archive located behind a prelude of length shift is the archive
\* located alone, with its directory offset and its entries' local header
\* offsets shifted; es and alone_es are the entries of the two
ShiftedBy(shift, file, result, es, in, alone, alone_es) ==
    /\ result.ok /\ alone.ok /\ es.ok /\ alone_es.ok
    /\ alone.base_offset = W0
    /\ result.base_offset = shift
    /\ directory_offset(result) = WAdd(shift, directory_offset(alone))
    /\ Len(es.entries) = Len(in.a1.entries)
    /\ Len(alone_es.entries) = Len(in.a1.entries)
    /\ \A i \in 1..Len(in.a1.entries) :
          /\ es.entries[i].file_path = in.a1.entries[i].name
          /\ local_header_offset(result, es.entries[i]) =
                WAdd(shift, local_header_offset(alone, alone_es.entries[i]))
          /\ get_entry(file, result, es.entries[i]) =
                [ok |-> TRUE, data |-> in.a1.entries[i].data]

AtSignature(file, result) ==
    /\ result.eocd_offset.some
    /\ BSlice(file, result.eocd_offset.n, At(4)) = Sig

\* C17 as stated: for every located non-ZIP64 archive eocd_offset is the
\* offset of the EOCD signature, base_offset equals eocd_offset - 22 -
\* comment_len - cd_size - cd_offset, and base_offset + cd_offset + cd_size
\* <= eocd_offset (base_offset is 0 without a prelude).
C17_BaseOffsetLessRecord ==
    locator.pc = "located" /\ Result.ok =>
        /\ AtSignature(Seen, Result)
        /\ WAdd(WAdd(WAdd(Result.base_offset, At(22)), BLen(Result.comment)),
                WAdd(Result.cd_size, Result.cd_offset)) = Result.eocd_offset.n
        /\ WGe(Result.eocd_offset.n,
               WAdd(WAdd(Result.base_offset, Result.cd_offset), Result.cd_size))
        /\ ReturnsA1(locator.in, Result) /\ locator.in.p1 = <<>>
              => Result.base_offset = W0

\* C17 amended: base_offset equals eocd_offset - cd_size - cd_offset; the
\* EOCD record and its comment lie behind eocd_offset and take no part.
C17_BaseOffset ==
    locator.pc = "located" /\ Result.ok =>
        /\ AtSignature(Seen, Result)
        /\ WAdd(Result.base_offset, WAdd(Result.cd_size, Result.cd_offset))
              = Result.eocd_offset.n
        /\ WGe(Result.eocd_offset.n,
               WAdd(WAdd(Result.base_offset, Result.cd_offset), Result.cd_size))
        /\ ReturnsA1(locator.in, Result) /\ locator.in.p1 = <<>>
              => Result.base_offset = W0

\* an archive with a comment and two entries behind 1000 zero bytes
C17_Witness ==
    /\ locator.pc = "located" /\ Result.ok
    /\ locator.in.p1 = Rep(0, At(1000))
    /\ ReturnsA1(locator.in, Result)
    /\ Result.comment = Comment /\ Result.entries = At(2)
    /\ Result.base_offset = At(1000)
    /\ WLt(W0, Result.cd_size)

-----------------------------------------------------------------------------
(* MutexReader: positional reads emulated on a seekable stream (SpecMutex) *)

\* the threads that share one &MutexReader
MutexThreads == {1, 2, 3}

\* the bytes of the underlying stream
StreamData == <<10, 11, 12, 13, 14, 15>>

\* where the stream stands when it is wrapped, the offsets asked for (one
\* of them behind the end of the stream) and the buffer lengths
StreamPositions == {0, 4}

MutexOffsets == {0, 2, 7}

MutexBufLens == {0, 3}

\* a thread that is not in read_at
NoReadAt == [pc |-> "idle", buflen |-> 0, offset |-> 0, original_position |-> 0,
             result |-> None]

\* MutexReader::new(inner)
MutexReader_new(position) ==
    /\ mx.pc = "idle"
    /\ mx' = [pc |-> "shared", initial |-> position, position |-> position,
              lock |-> None, calls |-> [t \in MutexThreads |-> NoReadAt]]
    /\ UNCHANGED <<xvars, wvars, ra, locator, rr, ef>>

\* read_at(buf, offset) entered by thread t
MxCall(t, buflen, offset) ==
    /\ mx.pc = "shared"
    /\ mx.calls[t].pc = "idle"
    /\ mx' = [mx EXCEPT !.calls[t] = [NoReadAt EXCEPT !.pc = "lock",
                                                        !.buflen = buflen,
                                                        !.offset = offset]]
    /\ UNCHANGED <<xvars, wvars, ra, locator, rr, ef>>

\* a lock that any thread gets at any time
lock_available_always(lock) == TRUE

\* Mutex::lock returns once no other thread holds the guard
lock_available(lock) == lock = None

\* let mut lock = self.0.lock().unwrap();
MxLock(t) ==
    /\ mx.pc = "shared"
    /\ mx.calls[t].pc = "lock"
    /\ lock_available(mx.lock)
    /\ mx' = [mx EXCEPT !.lock = Some(t), !.calls[t].pc = "stream_position"]
    /\ UNCHANGED <<xvars, wvars, ra, locator, rr, ef>>

\* the return of read_at: the guard is dropped
MxReturned(m, t, result) ==
    [m EXCEPT !.lock = IF @ = Some(t) THEN None ELSE @,
              !.calls[t].pc = "returned",
              !.calls[t].result = result]

IoError(at) == [ok |-> FALSE, error |-> at]

\* let original_position = lock.stream_position()?;
MxStreamPosition(t, fails) ==
    /\ mx.pc = "shared"
    /\ mx.calls[t].pc = "stream_position"
    /\ mx' = IF fails THEN MxReturned(mx, t, IoError("stream_position"))
             ELSE [mx EXCEPT !.calls[t].pc = "seek",
                             !.calls[t].original_position = mx.position]
    /\ UNCHANGED <<xvars, wvars, ra, locator, rr, ef>>

\* lock.seek(SeekFrom::Start(offset))?;
MxSeek(t, fails) ==
    /\ mx.pc = "shared"
    /\ mx.calls[t].pc = "seek"
    /\ mx' = IF fails THEN MxReturned(mx, t, IoError("seek"))
             ELSE [mx EXCEPT !.calls[t].pc = "read",
                             !.position = mx.calls[t].offset]
    /\ UNCHANGED <<xvars, wvars, ra, locator, rr, ef>>

\* what Read::read of the stream may return into a buffer of buflen bytes
\* when it stands at position: an error, nothing at the end of the data or
\* for an empty buffer, else one byte or all that fits
stream_read(position, buflen) ==
    LET left == IF position >= Len(StreamData) THEN 0
                ELSE Len(StreamData) - position
        most == IF buflen < left THEN buflen ELSE left
    IN  {IoError("read")} \cup
        { [ok |-> TRUE, bytes |-> SubSeq(StreamData, position + 1, position + n)] :
             n \in IF most = 0 THEN {0} ELSE {1, most} }

\* let result = lock.read(buf);
MxRead(t) ==
    /\ mx.pc = "shared"
    /\ mx.calls[t].pc = "read"
    /\ \E result \in stream_read(mx.position, mx.calls[t].buflen) :
          mx' = [mx EXCEPT !.calls[t].pc = "restore",
                           !.calls[t].result = result,
                           !.position = IF result.ok THEN @ + Len(result.bytes)
                                        ELSE @]
    /\ UNCHANGED <<xvars, wvars, ra, locator, rr, ef>>

\* lock.seek(SeekFrom::Start(original_position))?; result
MxRestore(t, fails) ==
    /\ mx.pc = "shared"
    /\ mx.calls[t].pc = "restore"
    /\ mx' = IF fails THEN MxReturned(mx, t, IoError("restore"))
             ELSE MxReturned([mx EXCEPT !.position = mx.calls[t].original_position],
                             t, mx.calls[t].result)
    /\ UNCHANGED <<xvars, wvars, ra, locator, rr, ef>>

NextMutex ==
    \/ \E position \in StreamPositions : MutexReader_new(position)
    \/ \E t \in MutexThreads, buflen \in MutexBufLens, offset \in MutexOffsets :
          MxCall(t, buflen, offset)
    \/ \E t \in MutexThreads : MxLock(t)
    \/ \E t \in MutexThreads, fails \in BOOLEAN : MxStreamPosition(t, fails)
    \/ \E t \in MutexThreads, fails \in BOOLEAN : MxSeek(t, fails)
    \/ \E t \in MutexThreads : MxRead(t)
    \/ \E t \in MutexThreads, fails \in BOOLEAN : MxRestore(t, fails)

\* no reader made yet
InitMutex == InitX

SpecMutex == InitMutex /\ [][NextMutex]_vars

\* the calls between the lock and the return
Holding == {t \in MutexThreads :
              mx.calls[t].pc \in {"stream_position", "seek", "read", "restore"}}

ReturnedCalls == {t \in MutexThreads : mx.calls[t].pc = "returned"}

\* the bytes are those of the stream from the offset on
BytesFrom(bytes, offset, buflen) ==
    /\ Len(bytes) <= buflen
    /\ Len(bytes) > 0 => offset + Len(bytes) <= Len(StreamData)
    /\ \A i \in 1..Len(bytes) : bytes[i] = StreamData[offset + i]

\* one call at a time between lock and return, and each returned read is
\* from the call's own offset
Serialized ==
    /\ \A t \in Holding, u \in Holding : t = u
    /\ \A t \in ReturnedCalls :
          mx.calls[t].result.ok =>
             BytesFrom(mx.calls[t].result.bytes, mx.calls[t].offset,
                       mx.calls[t].buflen)

AllReturned ==
    /\ ReturnedCalls # {}
    /\ \A t \in MutexThreads : mx.calls[t].pc \in {"idle", "returned"}

-----------------------------------------------------------------------------
(* RangeReader: a sequential view of a range of a ReaderAt (SpecRange) *)

\* the ranges start..end with start <= end over the 6 bytes of StreamData:
\* inside the data, empty, reaching behind it, and wholly behind it
Ranges ==
    { r \in {0, 2, 3, 6, 8} \X {0, 2, 5, 6, 10} : r[1] <= r[2] }

RangeBufLens == {0, 1, 2, 4, 10}

\* RangeReader::new(archive, range)
RangeReader_new(range) ==
    /\ rr.pc = "idle"
    /\ rr' = [pc |-> "open", start |-> range[1], offset |-> range[1],
              end_offset |-> range[2], returned |-> <<>>, last |-> None]
    /\ UNCHANGED <<xvars, wvars, ra, locator, mx, ef>>

position(r) == r.offset

remaining(r) == r.end_offset - r.offset

\* the whole buffer handed to read_at
read_size_of_buffer(buflen, left) == buflen

\* let read_size = buf.len().min(self.remaining() as usize);
read_size(buflen, left) == IF buflen < left THEN buflen ELSE left

\* what archive.read_at(&mut buf[..size], offset) may return: an error,
\* nothing at the end of the data or for an empty buffer, else one byte or
\* all that fits (the latter is what the slice reader does)
archive_read_at(size, offset) ==
    LET skip == IF Len(StreamData) < offset THEN Len(StreamData) ELSE offset
        left == Len(StreamData) - skip
        len == IF left < size THEN left ELSE size
    IN  {IoError("read_at")} \cup
        { [ok |-> TRUE, bytes |-> SubSeq(StreamData, skip + 1, skip + n)] :
             n \in IF len = 0 THEN {0} ELSE {1, len} }

\* <RangeReader as Read>::read(buf)
RangeRead(buflen) ==
    /\ rr.pc = "open"
    /\ \E result \in archive_read_at(read_size(buflen, remaining(rr)), rr.offset) :
          rr' = IF result.ok
                THEN [rr EXCEPT !.offset = @ + Len(result.bytes),
                                !.returned = @ \o result.bytes,
                                !.last = Some([at |-> rr.offset, buflen |-> buflen,
                                               read |-> Len(result.bytes)])]
                ELSE [rr EXCEPT !.last = None]
    /\ UNCHANGED <<xvars, wvars, ra, locator, mx, ef>>

NextRange ==
    \/ \E range \in Ranges : RangeReader_new(range)
    \/ \E buflen \in RangeBufLens : RangeRead(buflen)

\* no reader made yet
InitRange == InitX

SpecRange == InitRange /\ [][NextRange]_vars

\* C19: for a RangeReader over start..end with start <= end, after any
\* sequence of reads with any buffer sizes, the bytes returned so far are
\* the source bytes from start on, in order; position() = start + the
\* number of bytes returned <= end, so no byte at an offset >= end is
\* returned; and a read returns 0 when position() = end or the source is
\* exhausted.
C19_RangeReader ==
    rr.pc = "open" =>
        /\ \A i \in 1..Len(rr.returned) :
              /\ rr.start + i <= Len(StreamData)
              /\ rr.start + i <= rr.end_offset
              /\ rr.returned[i] = StreamData[rr.start + i]
        /\ position(rr) = rr.start + Len(rr.returned)
        /\ position(rr) <= rr.end_offset
        /\ rr.last.some =>
              /\ rr.last.n.read <= rr.last.n.buflen
              /\ (rr.last.n.at = rr.end_offset \/ rr.last.n.at >= Len(StreamData))
                    => rr.last.n.read = 0

\* the range 3..10 of the 6 bytes: its three bytes came, the next
\* read returned 0 at the end of the source, and 4 bytes remain
C19_Witness ==
    /\ rr.pc = "open" /\ rr.start = 3 /\ rr.end_offset = 10
    /\ rr.returned = <<13, 14, 15>>
    /\ rr.last = Some([at |-> 6, buflen |-> 4, read |-> 0])
    /\ remaining(rr) = 4

-----------------------------------------------------------------------------
(* ExtraFields: the iterator over a byte string (SpecFields) *)

\* how many times next() is called after it returned None
MaxNones == 2

\* the fields put into the byte strings: with 1, 0 and 3 bytes of data
WholeFields ==
    { <<>>, TlvBytes(ExtraFieldId_EXTENDED_TIMESTAMP, Lit(<<255>>)),
      TlvBytes(ExtraFieldId_ZIP64, <<>>), TlvBytes(26214, Lit(<<1, 2, 3>>)) }

\* what follows them: nothing, fewer than 4 bytes, a header that declares
\* 5 bytes of data with none or two of them there, and a header that
\* declares 9 bytes followed by a whole field of 5 bytes
Rests ==
    { <<>>, Lit(<<1>>), Lit(<<1, 0, 5>>), Lit(<<1, 0, 5, 0>>),
      Lit(<<1, 0, 5, 0, 9, 9>>),
      Cat(Lit(<<1, 0, 9, 0>>), TlvBytes(ExtraFieldId_EXTENDED_TIMESTAMP, Lit(<<255>>))) }

FieldStrings ==
    { Cat(Cat(f1, f2), rest) : f1 \in WholeFields, f2 \in WholeFields, rest \in Rests }

\* ExtraFields::new(data)
ExtraFields_new(data) ==
    /\ ef.pc = "idle"
    /\ ef' = [pc |-> "iter", input |-> data, data |-> data, yielded |-> <<>>,
              last |-> None, nones |-> 0]
    /\ UNCHANGED <<xvars, wvars, ra, locator, mx, rr>>

remaining_bytes(e) == e.data

\* <ExtraFields as Iterator>::next
ExtraFields_next ==
    /\ ef.pc = "iter"
    /\ ef.nones < MaxNones
    /\ LET next_chunk == next_data(ef.data)
           item == [id |-> le_u16(next_chunk[1], W0),
                    data |-> BDrop(next_chunk[1], WInt(4))]
       IN  ef' = IF next_chunk = <<>>
                 THEN [ef EXCEPT !.last = None, !.nones = @ + 1]
                 ELSE [ef EXCEPT !.data = next_chunk[2],
                                 !.yielded = Append(@, item),
                                 !.last = Some(item)]
    /\ UNCHANGED <<xvars, wvars, ra, locator, mx, rr>>

NextFields ==
    \/ \E data \in FieldStrings : ExtraFields_new(data)
    \/ ExtraFields_next

\* no iterator made yet
InitFields == InitX

SpecFields == InitFields /\ [][NextFields]_vars

\* no complete TLV starts the bytes: fewer than 4 of them, or a declared
\* length beyond what follows the 4
NoWholeField(bytes) ==
    \/ WLt(BLen(bytes), WInt(4))
    \/ WLt(BLen(bytes), WInt(le_u16(bytes, WInt(2)) + 4))

\* C20: iterating ExtraFields over a byte string yields, in order, the
\* maximal prefix of complete TLVs; iteration stops where fewer than 4
\* bytes remain or the declared length exceeds what remains, every later
\* next() returns None as well, and the TLVs yielded followed by
\* remaining_bytes() reproduce the input.
C20_MaximalPrefix ==
    ef.pc = "iter" =>
        /\ Cat(TlvsBytes(ef.yielded), remaining_bytes(ef)) = ef.input
        /\ \A i \in 1..Len(ef.yielded) :
              ef.yielded[i].id \in 0..65535 /\ WLt(BLen(ef.yielded[i].data), WInt(65536))
        /\ ef.nones > 0 => ef.last = None /\ NoWholeField(remaining_bytes(ef))

\* two fields were yielded, then None twice, before a header that declares
\* 9 bytes where 5 follow
C20_Witness ==
    /\ ef.pc = "iter" /\ ef.nones = MaxNones /\ ef.last = None
    /\ Len(ef.yielded) = 2
    /\ ef.yielded[1] = [id |-> ExtraFieldId_EXTENDED_TIMESTAMP, data |-> Lit(<<255>>)]
    /\ remaining_bytes(ef) =
          Cat(Lit(<<1, 0, 9, 0>>), TlvBytes(ExtraFieldId_EXTENDED_TIMESTAMP, Lit(<<255>>)))

-----------------------------------------------------------------------------
(* ReaderAt::read_exact_at over the bytes of StreamData (SpecExact) *)

\* the buffers filled and the offsets read at: inside the 6 bytes, up to
\* their end, across it and behind it
ExactBufLens == {0, 1, 2, 3, 5, 6}

ExactOffsets == {0, 2, 3, 6, 7}

\* a loop that takes no return of read_at for the end of the data
latest_is_eof_never(latest) == FALSE

\* if latest == 0
latest_is_eof(latest) == latest = 0

\* the return of read_exact_at
read_exact_at_returns(r, result) == [r EXCEPT !.pc = "done", !.result = result]

\* read_exact_at(buf, offset) up to its first read_at: `read` bytes of buf
\* are filled, `returns` are the returns of read_at so far
ReadExactAt(buflen, offset) ==
    /\ ra.pc \in {"idle", "done"}
    /\ LET r == [pc |-> "exact", buflen |-> buflen, offset |-> offset, read |-> 0,
                 buf |-> <<>>, returns |-> <<>>, result |-> None]
       IN  ra' = IF r.read < buflen THEN r
                 ELSE read_exact_at_returns(r, [ok |-> TRUE])
    /\ UNCHANGED <<xvars, wvars, locator, mx, rr, ef>>

\* one pass of the while loop: a read_at into buf[read..] at offset + read,
\* and the return when it ends the loop
ReadExactLoop ==
    /\ ra.pc = "exact"
    /\ \E latest \in archive_read_at(ra.buflen - ra.read, ra.offset + ra.read) :
          ra' = IF ~latest.ok
                THEN read_exact_at_returns(
                        [ra EXCEPT !.returns = Append(@, latest)], latest)
                ELSE IF latest_is_eof(Len(latest.bytes))
                THEN read_exact_at_returns(
                        [ra EXCEPT !.returns = Append(@, latest)],
                        IoError("UnexpectedEof"))
                ELSE LET r == [ra EXCEPT !.returns = Append(@, latest),
                                         !.buf = @ \o latest.bytes,
                                         !.read = @ + Len(latest.bytes)]
                     IN  IF r.read < r.buflen THEN r
                         ELSE read_exact_at_returns(r, [ok |-> TRUE])
    /\ UNCHANGED <<xvars, wvars, locator, mx, rr, ef>>

NextExact ==
    \/ \E buflen \in ExactBufLens, offset \in ExactOffsets : ReadExactAt(buflen, offset)
    \/ ReadExactLoop

\* no call made yet
InitExact == InitX

\* a thread that is in read_exact_at goes on running
SpecExact == InitExact /\ [][NextExact]_vars /\ WF_vars(ReadExactLoop)

\* the calls of read_at that returned bytes
Filling(returns) == SelectSeq(returns, LAMBDA x : x.ok /\ Len(x.bytes) > 0)

\* what holds during and after a call: every read_at but the last returned
\* bytes, so there are at most len(buf) + 1 of them; Ok means buf is full
\* of the bytes at offset .. offset + len(buf); the unexpected-EOF error
\* means the last read_at returned 0 with buf not full; any other error is
\* the one the last read_at returned
ReadExactSafe ==
    ra.pc \in {"exact", "done"} =>
        /\ Len(Filling(ra.returns)) <= ra.buflen
        /\ Len(ra.returns) <= Len(Filling(ra.returns)) + 1
        /\ ra.read = Len(ra.buf) /\ ra.read <= ra.buflen
        /\ \A i \in 1..Len(ra.buf) :
              /\ ra.offset + i <= Len(StreamData)
              /\ ra.buf[i] = StreamData[ra.offset + i]
        /\ ra.pc = "exact" => ra.read < ra.buflen /\ Filling(ra.returns) = ra.returns
        /\ ra.pc = "done" =>
              /\ ra.result.ok <=> ra.read = ra.buflen
              /\ ra.result.ok => Filling(ra.returns) = ra.returns
              /\ ra.result = IoError("UnexpectedEof")
                    <=> /\ ra.returns # <<>>
                        /\ Last(ra.returns) = [ok |-> TRUE, bytes |-> <<>>]
              /\ (~ra.result.ok /\ ra.result # IoError("UnexpectedEof"))
                    => ra.returns # <<>> /\ ra.result = Last(ra.returns)

\* C21: read_exact_at over a reader whose read_at may return any short
\* count terminates; it returns Ok only when all of buf is filled from the
\* offsets offset .. offset + len(buf), returns the unexpected-EOF error as
\* soon as a read_at returns 0 before buf is full, and returns an error of
\* read_at unchanged.
C21_ReadExactAt == []ReadExactSafe /\ ((ra.pc = "exact") ~> (ra.pc = "done"))

\* a buffer of 5 bytes at offset 0 was filled by three short reads
C21_Witness ==
    /\ ra.pc = "done" /\ ra.result = [ok |-> TRUE]
    /\ ra.buflen = 5 /\ ra.offset = 0
    /\ Len(ra.returns) >= 3
    /\ ra.buf = <<10, 11, 12, 13, 14>>

-----------------------------------------------------------------------------
(* Further claims about the archive writer (Spec) *)

\* the compressed size a data descriptor holds: 8 bytes wide in the 24-byte
\* form, 4 bytes wide in the 16-byte form
DescriptorHolds(dd, size) ==
    IF BLen(dd) = At(24) THEN Field(dd, 8, 8) = Lit(U64Le(size))
    ELSE Field(dd, 8, 4) = Lit(U32Le(size))

\* the compressed size a central directory header holds: the field itself,
\* or the sentinel and the value in the ZIP64 extra, behind the
\* uncompressed size when that is there as well
HeaderHolds(cdh, extras, size, after) ==
    IF Overflows(size)
    THEN /\ Field(cdh, 20, 4) = Sentinel32
         /\ Len(Zip64Tlvs(extras)) = 1
         /\ Field(Zip64Tlvs(extras)[1].data, after, 8) = Lit(U64Le(size))
    ELSE Field(cdh, 20, 4) = Lit(U32Le(size))

\* C22: the compressed size recorded for a file entry, in its data
\* descriptor and in its central directory header, is the number of bytes
\* the sink accepted through the ZipEntryWriter between create and finish
\* (of a short write the accepted part only), whatever compressed size the
\* DataDescriptorOutput handed to finish carries; the bytes reach the sink
\* as they were given, in order.
C22_CompressedSizeIsBytesAccepted ==
    /\ ew.some => ew.compressed_bytes = DataBytes(hist[ew.h].lfh, Len(Out) + 1)
    /\ \A i \in Tagged("data") :
          \E buf \in Buffers : Out[i].bytes = BTake(buf, BLen(Out[i].bytes))
    /\ \A h \in Recorded :
          hist[h].kind = "file" =>
              DescriptorHolds(Out[hist[h].dd].bytes, TrueCompressed(h))
    /\ Produced =>
          \A k \in 1..Len(RecordedSeq) :
              hist[RecordedSeq[k]].kind = "file" =>
                  HeaderHolds(Out[CdhSeq[k]].bytes, Out[CdhSeq[k] + 2].bytes,
                              TrueCompressed(RecordedSeq[k]),
                              IF Overflows(TrueUncompressed(RecordedSeq[k]))
                              THEN 8 ELSE 0)

\* an archive with a file entry that took 0xFFFFFFFF + 2 bytes in two
\* writes, finished with a descriptor output that carried 0
C22_Witness ==
    /\ Produced
    /\ \E h \in Recorded :
          /\ hist[h].kind = "file"
          /\ TrueCompressed(h) = WAdd(U32_MAX, At(2))
          /\ BLen(Out[hist[h].dd].bytes) = At(24)

\* the tag of record i of the stream ("none" outside of it)
TagAt(i) == IF i \in 1..Len(Out) THEN Out[i].tag ELSE "none"

\* the records before the central directory are blocks: a local file
\* header with its name and local extras, then data, then at most one data
\* descriptor
InBlocks ==
    \A i \in 1..(CdStart - 1) :
        /\ TagAt(i) \in {"lfh", "name", "lextra", "data", "dd"}
        /\ TagAt(i) = "lfh" => /\ TagAt(i - 1) \in {"none", "lextra", "data", "dd"}
                               /\ TagAt(i + 1) = "name" /\ TagAt(i + 2) = "lextra"
        /\ TagAt(i) = "name" => TagAt(i - 1) = "lfh"
        /\ TagAt(i) = "lextra" => TagAt(i - 1) = "name"
        /\ TagAt(i) \in {"data", "dd"} => TagAt(i - 1) \in {"lextra", "data"}

\* the blocks are those of the entries created, in the order of creation,
\* each under its name; directories have no data and no descriptor
BlocksInCreationOrder ==
    /\ \A i \in Tagged("lfh") : \E h \in WithLocalHeader : hist[h].lfh = i
    /\ \A h \in WithLocalHeader :
          /\ TagAt(hist[h].lfh) = "lfh"
          /\ Out[hist[h].lfh + 1].bytes = hist[h].name
          /\ hist[h].kind = "dir" => TagAt(hist[h].lfh + 3) \in {"lfh", "cdh", "z64", "eocd"}
          /\ \A g \in WithLocalHeader : g < h => hist[g].lfh < hist[h].lfh

\* the block of the file entry h ends with a data descriptor
EndsWithDescriptor(h) == TagAt(EntryEnd(h)) = "dd"

\* behind the blocks: one central directory header (with name and extras)
\* per recorded entry, in the order of their local headers, then the ZIP64
\* EOCD record and its locator or neither, then the EOCD as the last record
DirectoryAndEnd ==
    /\ Len(CdhSeq) = Len(RecordedSeq)
    /\ \A k \in 1..Len(CdhSeq) :
          /\ CdhSeq[k] = CdStart + 3 * (k - 1)
          /\ TagAt(CdhSeq[k] + 1) = "cname" /\ TagAt(CdhSeq[k] + 2) = "cextra"
          /\ \A j \in 1..Len(CdhSeq) :
                j < k => hist[RecordedSeq[j]].lfh < hist[RecordedSeq[k]].lfh
    /\ CdEnd = CdStart + 3 * Len(CdhSeq)
    /\ TagAt(Len(Out)) = "eocd"
    /\ \/ CdEnd = Len(Out)
       \/ /\ CdEnd + 2 = Len(Out)
          /\ TagAt(CdEnd) = "z64" /\ TagAt(CdEnd + 1) = "z64loc"

\* a step of the writer leaves the records emitted so far as they are
AppendOnly ==
    /\ Len(writer'.out) >= Len(writer.out)
    /\ SubSeq(writer'.out, 1, Len(writer.out)) = writer.out

\* C23 as stated: the stream of a finished archive is one block per entry
\* (local file header, name, local extras, then for files the data and the
\* data descriptor) in creation order, then one central directory header
\* per recorded entry in the order of the local headers, then the optional
\* ZIP64 EOCD record and locator, then the EOCD as the last bytes; no byte
\* emitted is rewritten.
C23_EmissionOrder ==
    /\ [](Produced =>
            /\ InBlocks /\ BlocksInCreationOrder /\ DirectoryAndEnd
            /\ \A h \in WithLocalHeader :
                  hist[h].kind = "file" => EndsWithDescriptor(h))
    /\ [][AppendOnly]_vars

\* C23 amended: the block of a file ends with the data descriptor when the
\* entry was finished; an entry writer dropped without finish leaves the
\* block without one.
C23_EmissionOrderOfFinished ==
    /\ [](Produced =>
            /\ InBlocks /\ BlocksInCreationOrder /\ DirectoryAndEnd
            /\ \A h \in Recorded :
                  hist[h].kind = "file" => EndsWithDescriptor(h))
    /\ [][AppendOnly]_vars

\* an archive of a file with data and a directory, in this order
C23_Witness ==
    /\ Produced
    /\ Len(RecordedSeq) = 2 /\ Len(CdhSeq) = 2
    /\ hist[RecordedSeq[1]].kind = "file" /\ hist[RecordedSeq[2]].kind = "dir"
    /\ Tagged("data") # {}
    /\ EndsWithDescriptor(RecordedSeq[1])

\* the sum of name_len over the FileHeaders of fs
RECURSIVE SumNameLen(_)
SumNameLen(fs) == IF fs = <<>> THEN 0 ELSE fs[1].name_len + SumNameLen(Tail(fs))

\* the name_len of the entry writer that is still open, 0 without one
OpenNameLen == IF ew.some THEN ew.name_len ELSE 0

\* the k-th central directory header is followed by the name the k-th
\* recorded entry was created with
CentralNamesAsGiven ==
    \A k \in 1..Len(CdhSeq) :
        k <= Len(RecordedSeq) =>
            Out[CdhSeq[k] + 1].bytes = hist[RecordedSeq[k]].name

\* C24: after any sequence of writer operations (failed creates, dropped
\* entry writers and failed finishes included) file_names is as long as the
\* name_len of the recorded entries taken together, the entry being written
\* counted with them, and every central directory header of a finished
\* archive carries the name its entry was created with.
C24_NameBufferAligned ==
    /\ BLen(file_names) = WInt(SumNameLen(files) + OpenNameLen)
    /\ Produced => CentralNamesAsGiven

-----------------------------------------------------------------------------
(* Further claims about the extra field container (SpecExtras) *)

\* the size the container declares for a header location
DeclaredSize(c, filter) ==
    IF filter = Header_LOCAL THEN c.local_size ELSE c.central_size

\* C25: for every container reached by add_field calls with any location
\* (LOCAL, CENTRAL, both or the empty mask) write_extra_fields emits
\* exactly local_size bytes for LOCAL and central_size bytes for CENTRAL.
C25_DeclaredLengthIsEmitted ==
    XWritten => BLen(xout.bytes) = WInt(DeclaredSize(xc, xout.filter))

\* the same for containers whose fields all have a location
C25_DeclaredLengthWithLocation ==
    (XWritten /\ \A i \in 1..Len(xadded) : xadded[i].location # HeaderNone)
        => BLen(xout.bytes) = WInt(DeclaredSize(xc, xout.filter))

-----------------------------------------------------------------------------
(* SpecManyDirs: finish on an archive of many equal directory entries *)

\* n * w for n < 2^16 and a wide number w below 2^31, the low half
\* multiplied byte by byte
WTimes(n, w) ==
    LET p1 == n * (w[2] \div 256)
        p0 == n * (w[2] % 256)
        low == (p1 % 256) * 256 + p0
    IN  <<n * w[1] + (p1 \div 256) + (low \div B16), low % B16>>

\* how many directories were created, how long their name is (the last
\* byte being '/'), how many bytes of CENTRAL extras each has (none, or one
\* field that fills the location) and the offset the writer was built with
ManyCounts == {0, 1, 32757, 32758, 65535}

ManyNameLens == {2, 65535}

ManyCentralSizes == {0, 65535}

ManyOffsets == {W0, <<65535, 0>>, U32_MAX, TwoTo32}

ManyName(name_len) == Cat(Rep(97, WInt(name_len - 1)), Lit(<<47>>))

\* file_names after n creates under this name, held as the name and how
\* many times it is there
ManyNames(n, name_len) == [times |-> n, name |-> ManyName(name_len)]

ManyOptions(central_size) ==
    [compression_method |-> CompressionMethod_Store,
     modification_time |-> None,
     unix_permissions |-> None,
     extra_fields |-> IF central_size = 0 THEN NewContainer
                      ELSE add_field_ok(NewContainer, 26214, Zeros(central_size - 4),
                                        Header_CENTRAL)]

\* new_dir_with_options for one such directory on a writer of its own
OneDir(name_len, central_size) ==
    new_dir_with_options(CountWriter_new(None, W0), <<>>, <<>>, ManyName(name_len),
                         ManyOptions(central_size))

\* the files list after n such directories were created on a writer built
\* with_offset(base), held as its length, its first FileHeader and the
\* length of a block: the i-th local header lies i - 1 blocks behind base
ManyFiles(n, one, base) ==
    [len |-> n,
     first |-> [one.files[1] EXCEPT !.local_header_offset = base],
     block |-> one.writer.count]

\* the FileHeaders of such a list, one by one
FileHeaders(many) ==
    [i \in 1..many.len |->
        [many.first EXCEPT !.local_header_offset = WAdd(@, WTimes(i - 1, many.block))]]

\* the archive writer after these n creates; the log of the sink starts
\* behind the n blocks
InitManyWriter(n, name_len, one, base) ==
    /\ offset0 = base
    /\ writer = CountWriter_new(None, WAdd(base, WTimes(n, one.writer.count)))
    /\ files = ManyFiles(n, one, base)
    /\ file_names = ManyNames(n, name_len)
    /\ consumed = FALSE
    /\ builder = None
    /\ ew = None
    /\ dw = None
    /\ desc = None
    /\ call = NoCall
    /\ hist = <<>>
    /\ budget = [writes |-> 0, options |-> 0]

InitManyDirs ==
    /\ RIdle
    /\ xc = NewContainer
    /\ xadded = <<>>
    /\ xcall = NoCall
    /\ xout = NoCall
    /\ \E n \in ManyCounts, name_len \in ManyNameLens,
          central_size \in ManyCentralSizes, base \in ManyOffsets :
          \E one \in {OneDir(name_len, central_size)} :
              InitManyWriter(n, name_len, one, base)

\* the loop of ZipArchiveWriter::finish over equal entries: every pass
\* writes as many bytes as the first; the headers are logged as one record
\* of that many bytes
write_equal_central_headers(w, fs, one) ==
    IF fs = <<>> THEN w
    ELSE [w EXCEPT !.out = Append(@, [tag |-> "cdh",
                                      bytes |-> Rep(0, WTimes(Len(fs), one.count))]),
                   !.count = WAdd(@, WTimes(Len(fs), one.count))]

\* ZipArchiveWriter::finish on such a writer; names holds what the first
\* header takes out of file_names
many_finish(w, fs, names) ==
    write_end_records(
        write_equal_central_headers(
            w, fs,
            IF fs = <<>> THEN w
            ELSE write_central_headers(CountWriter_new(None, W0), <<fs[1]>>, names, W0)),
        Len(fs), w.count, archive_needs_zip64(Len(fs), w.count, fs))

ManyFinish ==
    /\ ~consumed
    /\ \E w \in {many_finish(Begin(writer), FileHeaders(files), file_names.name)} :
          ArchiveFinishReturns(w)
    /\ consumed' = TRUE
    /\ UNCHANGED <<offset0, files, file_names, builder, ew, dw, desc, hist, budget>>
    /\ UNCHANGED <<xvars, rvars>>

NextManyDirs == ManyFinish

SpecManyDirs == InitManyDirs /\ [][NextManyDirs]_vars

\* the EOCD, the last record of a produced archive
Eocd == Out[Len(Out)].bytes

\* a field of the EOCD holds its sentinel: the entry count 0xFFFF, the
\* central directory size or offset 0xFFFFFFFF
EocdSentinel ==
    \/ Field(Eocd, 8, 2) = Lit(<<255, 255>>)
    \/ Field(Eocd, 10, 2) = Lit(<<255, 255>>)
    \/ Field(Eocd, 12, 4) = Sentinel32
    \/ Field(Eocd, 16, 4) = Sentinel32

\* C26: in every archive produced by finish, when a field of the EOCD
\* holds a sentinel, the ZIP64 EOCD record and its locator were emitted
\* right before the EOCD; so too when only the central directory size
\* reaches 0xFFFFFFFF.
C26_SentinelsImplyZip64 ==
    (Produced /\ EocdSentinel) =>
        /\ TagAt(Len(Out) - 2) = "z64"
        /\ TagAt(Len(Out) - 1) = "z64loc"

-----------------------------------------------------------------------------
(* Rejected create calls (Spec) *)

\* the create call about to be made fails input validation: a directory
\* name without '/' at its end, or a name of more than 65535 bytes
FailsValidation ==
    /\ builder.some
    /\ \/ builder.kind = "dir" /\ ~is_dir(builder.name)
       \/ builder.kind = "dir" /\ name_too_long(builder.name)
       \/ builder.kind = "file" /\ name_too_long(trim_end_matches_slash(builder.name))

\* the step is the create call on the builder
CreateStep == builder.some /\ ~builder'.some /\ call'.op = "create"

\* the step returned InvalidInput and left sink, counter, entry list and
\* name buffer as they were
RejectedUnchanged ==
    /\ call'.result = "InvalidInput"
    /\ writer'.out = writer.out /\ writer'.room = writer.room
    /\ writer'.count = writer.count
    /\ files' = files
    /\ file_names' = file_names
    /\ ew' = ew

\* names of 65536 bytes: one for a file, the same with '/' behind it, and
\* a directory name
LongFileNames == {Rep(97, WInt(65536)), Cat(Rep(97, WInt(65536)), Lit(<<47>>))}

LongDirName == Cat(Rep(97, WInt(65535)), Lit(<<47>>))

\* create with a name of 65536 bytes, on the archive writer as it is
LongNamesRejected ==
    /\ \A name \in LongFileNames :
          new_file_with_options(Begin(writer), file_names, name, ManyOptions(0))
              = [result |-> "InvalidInput", writer |-> Begin(writer),
                 file_names |-> file_names, ew |-> None]
    /\ new_dir_with_options(Begin(writer), files, file_names, LongDirName,
                            ManyOptions(0))
          = [result |-> "InvalidInput", writer |-> Begin(writer),
             file_names |-> file_names, files |-> files]

\* C27: a create call that fails input validation (new_dir with a name not
\* ending in '/', a file or directory name of more than 65535 bytes)
\* returns InvalidInput, writes no byte and leaves the byte counter, the
\* entry list and the name buffer as they were.
C27_RejectedCreateChangesNothing ==
    /\ [][(CreateStep /\ FailsValidation) => RejectedUnchanged]_vars
    /\ [](~consumed => LongNamesRejected)

\* an archive finished with an entry in it after a new_dir call was
\* rejected for its name
C27_Witness ==
    /\ Produced
    /\ \E h \in 1..Len(hist), g \in Recorded :
          /\ h < g
          /\ hist[h].kind = "dir" /\ ~is_dir(hist[h].given)
          /\ hist[h].state = "rejected"

-----------------------------------------------------------------------------
(* SpecAnyRange: RangeReader over any Range<u64>, start > end included *)

AnyRanges == {0, 2, 3, 6, 8} \X {0, 2, 5, 6, 10}

\* buf.len().min(self.remaining() as usize) with remaining() as the u64
\* subtraction it is: below zero the subtraction panics where overflow is
\* checked, and wraps to 2^64 + end_offset - offset, more than any
\* buffer, where it is not
read_size_outcomes(buflen, r) ==
    IF r.end_offset >= r.offset
    THEN {[panic |-> FALSE, size |-> read_size(buflen, remaining(r))]}
    ELSE {[panic |-> TRUE, size |-> 0], [panic |-> FALSE, size |-> buflen]}

\* <RangeReader as Read>::read(buf) on such a reader
AnyRangeRead(buflen) ==
    /\ rr.pc = "open"
    /\ \E rs \in read_size_outcomes(buflen, rr) :
          IF rs.panic
          THEN rr' = [rr EXCEPT !.pc = "panicked"]
          ELSE \E result \in archive_read_at(rs.size, rr.offset) :
                  rr' = IF result.ok
                        THEN [rr EXCEPT !.offset = @ + Len(result.bytes),
                                        !.returned = @ \o result.bytes,
                                        !.last = Some([at |-> rr.offset,
                                                       buflen |-> buflen,
                                                       read |-> Len(result.bytes)])]
                        ELSE [rr EXCEPT !.last = None]
    /\ UNCHANGED <<xvars, wvars, ra, locator, mx, ef>>

NextAnyRange ==
    \/ \E range \in AnyRanges : RangeReader_new(range)
    \/ \E buflen \in RangeBufLens : AnyRangeRead(buflen)

InitAnyRange == InitX

SpecAnyRange == InitAnyRange /\ [][NextAnyRange]_vars

\* C28: for every RangeReader, one made from a range with start > end
\* included, position() <= end_offset() in every state, remaining() never
\* goes below zero (no panic, no wrapped value), and read returns no byte
\* from end_offset on.
C28_PositionWithinRange ==
    rr.pc # "idle" =>
        /\ rr.pc # "panicked"
        /\ position(rr) <= rr.end_offset
        /\ remaining(rr) >= 0
        /\ rr.last.some => rr.last.n.at + rr.last.n.read <= rr.end_offset

-----------------------------------------------------------------------------
(* The invariant of the extra field container (SpecExtras) *)

\* 4 + len(data) summed over the fields stored for the location l
RECURSIVE SumFor(_, _)
SumFor(added, l) ==
    IF added = <<>> THEN 0
    ELSE (IF intersects(added[1].location, l) THEN 4 + BLen(added[1].data)[2] ELSE 0)
         + SumFor(Tail(added), l)

\* C29: after any sequence of add_field calls, failed ones included,
\* local_size and central_size are the sums of 4 + len(data) over the
\* stored fields of their location, both at most 65535; there are as many
\* location entries as complete TLVs in the buffer, which hold nothing
\* else; and the walk of write_extra_fields_iter finds data for every
\* entry.
C29_ContainerInvariant ==
    /\ xc.local_size = SumFor(xadded, Header_LOCAL)
    /\ xc.central_size = SumFor(xadded, Header_CENTRAL)
    /\ xc.local_size <= U16_MAX /\ xc.central_size <= U16_MAX
    /\ Len(xc.entries) = Len(ParseTlvs(xc.data_buffer))
    /\ Len(xc.entries) = Len(xadded)
    /\ TlvsBytes(ParseTlvs(xc.data_buffer)) = xc.data_buffer
    /\ \A filter \in {Header_LOCAL, Header_CENTRAL} :
          ~write_extra_fields_iter(xc, filter).panic
    /\ XWritten => ~xout.panic

\* a container filled to 65535 for LOCAL by two fields, 6 bytes of them
\* for CENTRAL too, after the per-entry walk wrote the CENTRAL ones
C29_Witness ==
    /\ XWritten /\ xout.filter = Header_CENTRAL
    /\ Len(xc.entries) = 2
    /\ xc.local_size = U16_MAX /\ xc.central_size = 6
    /\ xout.bytes = write_extra_fields_iter(xc, Header_CENTRAL).bytes
    /\ BLen(xout.bytes) = WInt(6)

-----------------------------------------------------------------------------
(* SpecStackVec: StackVec<u8, N> next to a plain vector *)

\* the most operations on one StackVec
MaxOps == 3

\* inline capacities, items pushed and slices appended (two of them of
\* 255 and 256 bytes)
StackCapacities == {0, 2, 4, 255, 256}

StackItems == {6, 9}

Sevens(n) == [i \in 1..n |-> 7]

StackSlices == {<<>>, <<1, 2>>, <<3, 4, 5>>, Sevens(255), Sevens(256)}

\* StackVec::Small { data, len } and StackVec::Large(vec)
Small(data, len) == [kind |-> "Small", data |-> data, len |-> len]

Large(vec) == [kind |-> "Large", vec |-> vec]

\* StackVec::new(default_val)
StackVec_new(N, default_val) == Small([i \in 1..N |-> default_val], 0)

\* `*len += k` on the u8 len: past 255 the addition panics where overflow
\* is checked and wraps where it is not
len_add(len, k) ==
    IF len + k <= 255
    THEN {[panic |-> FALSE, len |-> len + k]}
    ELSE {[panic |-> TRUE, len |-> len], [panic |-> FALSE, len |-> (len + k) % 256]}

\* StackVec::push -> the outcomes [panic, sv]
push(sv, N, item) ==
    IF sv.kind = "Small"
    THEN IF sv.len < N
         THEN { [panic |-> o.panic,
                 sv |-> Small([sv.data EXCEPT ![sv.len + 1] = item], o.len)] :
                   o \in len_add(sv.len, 1) }
         ELSE {[panic |-> FALSE, sv |-> Large(Append(SubSeq(sv.data, 1, N), item))]}
    ELSE {[panic |-> FALSE, sv |-> Large(Append(sv.vec, item))]}

\* extend_from_slice promoting with the whole inline array
extend_from_slice_whole_array(sv, N, slice) ==
    IF sv.kind = "Small"
    THEN IF sv.len + Len(slice) <= N
         THEN { [panic |-> o.panic,
                 sv |-> Small([i \in 1..N |->
                                  IF i > sv.len /\ i <= sv.len + Len(slice)
                                  THEN slice[i - sv.len] ELSE sv.data[i]],
                              o.len)] :
                   o \in len_add(sv.len, Len(slice) % 256) }
         ELSE {[panic |-> FALSE, sv |-> Large(SubSeq(sv.data, 1, N) \o slice)]}
    ELSE {[panic |-> FALSE, sv |-> Large(sv.vec \o slice)]}

\* StackVec<u8, N>::extend_from_slice -> the outcomes [panic, sv];
\* `slice.len() as u8` keeps the low 8 bits of the length
extend_from_slice(sv, N, slice) ==
    IF sv.kind = "Small"
    THEN IF sv.len + Len(slice) <= N
         THEN { [panic |-> o.panic,
                 sv |-> Small([i \in 1..N |->
                                  IF i > sv.len /\ i <= sv.len + Len(slice)
                                  THEN slice[i - sv.len] ELSE sv.data[i]],
                              o.len)] :
                   o \in len_add(sv.len, Len(slice) % 256) }
         ELSE {[panic |-> FALSE, sv |-> Large(SubSeq(sv.data, 1, sv.len) \o slice)]}
    ELSE {[panic |-> FALSE, sv |-> Large(sv.vec \o slice)]}

\* StackVec::as_slice
as_slice(sv) == IF sv.kind = "Small" THEN SubSeq(sv.data, 1, sv.len) ELSE sv.vec

\* xc holds the StackVec with its capacity, xadded the plain vector that
\* received the same operations
InitStackVec ==
    /\ RIdle
    /\ \E N \in StackCapacities :
          xc = [pc |-> "run", n |-> N, ops |-> 0, sv |-> StackVec_new(N, 0)]
    /\ xadded = <<>>
    /\ xcall = NoCall
    /\ xout = NoCall
    /\ InitWriter(W0, None)

StackVecReturns(o) ==
    xc' = [xc EXCEPT !.pc = IF o.panic THEN "panicked" ELSE "run",
                     !.ops = @ + 1,
                     !.sv = o.sv]

StackVecPush(item) ==
    /\ xc.pc = "run" /\ xc.ops < MaxOps
    /\ \E o \in push(xc.sv, xc.n, item) : StackVecReturns(o)
    /\ xadded' = Append(xadded, item)
    /\ xcall' = [op |-> "push"]
    /\ UNCHANGED <<xout, wvars, rvars>>

StackVecExtend(slice) ==
    /\ xc.pc = "run" /\ xc.ops < MaxOps
    /\ \E o \in extend_from_slice(xc.sv, xc.n, slice) : StackVecReturns(o)
    /\ xadded' = xadded \o slice
    /\ xcall' = [op |-> "extend_from_slice"]
    /\ UNCHANGED <<xout, wvars, rvars>>

NextStackVec ==
    \/ \E item \in StackItems : StackVecPush(item)
    \/ \E slice \in StackSlices : StackVecExtend(slice)

SpecStackVec == InitStackVec /\ [][NextStackVec]_vars

====
